---- MODULE Spec2Model ----
(***************************************************************************)
(* Model of src/script.js: the polling pipeline of the earthquake          *)
(* dashboard.  fetchEarthquakeData fetches the four report kinds (551      *)
(* intensity, 552 tsunami forecast, 556 tsunami observation, 554 early     *)
(* warning), builds the tsunami maps, merges the intensity reports by      *)
(* event key and turns every merged report into an Event.                  *)
(*                                                                         *)
(* JavaScript values.  An optional value (a property that may be           *)
(* undefined or null) is a sequence of length 0 or 1: Absent == <<>> and   *)
(* Some(v) == <<v>>.  Strings are TLA+ strings, template literals are \o.  *)
(* A JavaScript Set or Map keeps insertion order: a Set is a sequence      *)
(* without duplicates, the Map uniqueEarthquakesMap is a sequence of       *)
(* [key, ref] entries.  Objects that the code mutates through references   *)
(* live in a heap indexed by their position in the fetched list.           *)
(***************************************************************************)
EXTENDS Integers, Sequences, FiniteSets, TLC

VARIABLES
    upstream,               \* what the API serves per code: [code -> Seq(report)]
    data,                   \* fetchEarthquakeData: `data` of the last poll
    tsunamiDetailsMap,      \* fetchEarthquakeData: map of the last poll (552)
    tsunamiObservationMap,  \* fetchEarthquakeData: map of the last poll (556)
    earthquakes,            \* the value fetchEarthquakeData returned
    PROCESSED_EARTHQUAKES,  \* script.js:47
    errorShown,             \* #error-message is not hidden
    eewQueue,               \* script.js:86, the ids of the queued alerts
    results,                \* fetchEarthquakeData: how the four fetches of the
                            \* last poll settled, [code -> outcome]
    KANA_DICT,              \* script.js:2, the entries [name, kana] in
                            \* insertion order
    resolved,               \* getMunicipality: the arguments and the value of
                            \* the last call, Absent before the first
    MANUAL_KANA_DICT,       \* script.js:102, the override table
    manualKanaDictionary,   \* the item 'manualKanaDictionary' of
                            \* localStorage, Absent when it is not set
    kanaCall,               \* getKana: the argument and the value of the
                            \* last call, Absent before the first
    contentLine1,           \* the surface #content-line-1: the pairs <<first
                            \* item, number of items>> of the html that fits
    loopPlaybackMinScale,   \* script.js:80
    USE_DUMMY_DATA,         \* script.js:53
    selectedCardId,         \* script.js:3248, the Event id of the card
    FIXED_BAR_VIEWS,        \* script.js:57
    CURRENT_SHINDO_INDEX,   \* script.js:58, counted from 0
    isAutoplaying,          \* script.js:63
    isWaitingForAutoplay,   \* script.js:67
    autoplayLoopCounter,    \* script.js:64
    autoplayIntervalId,     \* script.js:62, Absent for null
    refreshIntervalId,      \* script.js:65, Absent for null
    intervals,              \* the armed setInterval timers: [id -> callback]
    timeouts,               \* the pending setTimeout calls, counted per callback
    refreshButtonDisabled,  \* #refresh-button is disabled
    controlsLocked,         \* the list, the mode switch and the training
                            \* button are disabled
    barContent,             \* the view renderContent wrote last, Absent
                            \* while line 1 of the bar is empty
    prevDisabled,           \* #shindo-prev is disabled
    nextDisabled,           \* #shindo-next is disabled
    pageLookup,             \* the last FIXED_BAR_VIEWS[CURRENT_SHINDO_INDEX]
                            \* of updateFixedBarDisplay: the index and the
                            \* length of the list, Absent before the first
    slideTimeouts,          \* the views that pending timeouts of the slide
                            \* transition are to render, the oldest first
    LAST_FETCH_TIME,        \* script.js:51, Absent for null
    inFlight,               \* the refreshData calls that await their fetch
    loaded,                 \* how far window.onload has come
    playEewSound,           \* script.js:83
    eewAudioPlaying,        \* eewAudioObject plays the alert sound
    currentEewIndex,        \* script.js:89, counted from 0
    eewDisplayIntervalId,   \* script.js:87, Absent for null
    eewClearTimeoutId,      \* script.js:88, Absent for null
    eewAlertText,           \* the id of the alert whose text #eew-alert-text
                            \* shows, Absent while the container is hidden
    eewTimers               \* the ids of the armed timers of the alert cycle

\* what a poll assigns
pollVars == <<data, tsunamiDetailsMap, tsunamiObservationMap, earthquakes,
              PROCESSED_EARTHQUAKES, errorShown, eewQueue, results>>

\* the override table of the readings
kanaVars == <<MANUAL_KANA_DICT, manualKanaDictionary, kanaCall>>

\* the municipality resolver and the readings
resolverVars == <<KANA_DICT, resolved, kanaVars>>

\* the fixed bar, playback and the timers
uiVars == <<contentLine1, loopPlaybackMinScale, USE_DUMMY_DATA, selectedCardId,
            FIXED_BAR_VIEWS, CURRENT_SHINDO_INDEX, isAutoplaying,
            isWaitingForAutoplay, autoplayLoopCounter, autoplayIntervalId,
            refreshIntervalId, intervals, timeouts, refreshButtonDisabled,
            controlsLocked, barContent, prevDisabled, nextDisabled, pageLookup,
            slideTimeouts, LAST_FETCH_TIME, inFlight, loaded>>

\* the alert of an early warning, with eewQueue
alertVars == <<playEewSound, eewAudioPlaying, currentEewIndex, eewDisplayIntervalId,
               eewClearTimeoutId, eewAlertText, eewTimers>>

vars == <<upstream, pollVars, resolverVars, uiVars, alertVars>>

----------------------------------------------------------------------------
(* Bounds of the model *)

\* reports the upstream API holds at most (all four kinds together)
MaxReports == 3

\* areas that area.json lists at most
MaxAreas == 2

\* items that a paginator gets at most
MaxItems == 3

\* refreshData calls that await their fetch at most
MaxInFlight == 2

\* loops that a playback counts at most
MaxLoops == 1

\* pending timeouts of one callback at most
MaxPending == 1

----------------------------------------------------------------------------
(* JavaScript values *)

\* Then(value) for a value that is computed once: const x = value; Then(x)
Once(value, Then(_)) == CHOOSE r \in {Then(x) : x \in {value}} : TRUE

Absent == <<>>
Some(v) == <<v>>
Has(o) == o # <<>>
Val(o) == o[1]

\* !s for a string-or-undefined value
FalsyStr(o) == o = Absent \/ o = Some("")

\* String(v) for a string-or-undefined value
JsString(o) == IF o = Absent THEN "undefined" ELSE Val(o)

\* a || b on string-or-undefined values
OrElse(a, b) == IF FalsyStr(a) THEN b ELSE a

\* Set.prototype.add on an insertion-ordered set
SetAdd(s, x) == IF \E i \in 1..Len(s) : s[i] = x THEN s ELSE Append(s, x)

\* the elements of a sequence
Elems(s) == {s[i] : i \in 1..Len(s)}

\* Map.prototype.set on a map held as a function
MapSet(m, k, v) == [x \in (DOMAIN m) \cup {k} |-> IF x = k THEN v ELSE m[x]]

EmptyMap == [x \in {} |-> {}]

----------------------------------------------------------------------------
(* Reports of the upstream API *)

\* every report carries every property; a property the JSON lacks is Absent
Report(code) ==
    [code |-> code, id |-> Absent, issue |-> Absent, earthquake |-> Absent,
     points |-> Absent, tsunami |-> Absent, cancelled |-> FALSE, areas |-> Absent]

Issue(event_id, eventid) == Some([event_id |-> event_id, eventid |-> eventid])

Hypocenter(name, magnitude) == Some([name |-> name, magnitude |-> magnitude])

\* code 551; magnitude in tenths
IntensityReport(time, hypocenter, maxScale, domesticTsunami, points, issue) ==
    [Report(551) EXCEPT
        !.issue = issue,
        !.earthquake = Some([time |-> time, hypocenter |-> hypocenter,
                             maxScale |-> maxScale,
                             domesticTsunami |-> domesticTsunami]),
        !.points = points]

\* code 552; forecasts is Absent or Some(sequence of [grade, area: [name]])
ForecastReport(issue, tsunami) ==
    [Report(552) EXCEPT !.issue = issue, !.tsunami = tsunami]

\* code 556; areas is Absent or Some(sequence of [stations]), heights in cm
ObservationReport(issue, cancelled, areas) ==
    [Report(556) EXCEPT !.issue = issue, !.cancelled = cancelled, !.areas = areas]

\* code 554
EewReport(id, earthquake) ==
    [Report(554) EXCEPT !.id = id, !.earthquake = earthquake]

----------------------------------------------------------------------------
(* Program constants *)

MIN_LIST_SCALE == 30
MIN_DETAIL_SCALE == 10

Urls == <<551, 552, 556, 554>>

Grades == <<"MajorWarning", "Warning", "Advisory">>

----------------------------------------------------------------------------
(* digestMessage and the strings it is fed *)

\* SHA-256 as a hex string: modelled as an injective function of the message
DigestMessage(message) == "sha256(" \o message \o ")"

\* mutant: the key leaves out the epicenter name
EventKey_TimeOnly(eventTime, epicenterName) == eventTime

\* `${eventTime}_${epicenterName}` of the merge loop
EventKey(eventTime, epicenterName) == eventTime \o "_" \o epicenterName

\* formatDateTime: local time cut to the minute (browser in JST); a string
\* Date cannot parse formats to NaN fields
FormatDateTime(isoString) ==
    IF FalsyStr(isoString) THEN "fumei"
    ELSE CASE Val(isoString) = "2025-01-01T12:00:00+09:00" -> "2025/01/01 12:00"
           [] Val(isoString) = "2025-01-01T12:00:30+09:00" -> "2025/01/01 12:00"
           [] Val(isoString) = "2025-01-01T12:05:00+09:00" -> "2025/01/01 12:05"
           [] OTHER -> "NaN/NaN/NaN NaN:NaN"

----------------------------------------------------------------------------
(* Step 1 of fetchEarthquakeData: tsunami forecasts (552) *)

\* String(x.issue?.event_id || x.issue?.eventid)
CorrelationId(issue) ==
    IF Has(issue) THEN JsString(OrElse(Val(issue).event_id, Val(issue).eventid))
    ELSE "undefined"

\* forecastsByGrade after the first n forecasts of one report
RECURSIVE ForecastsByGrade(_, _)
ForecastsByGrade(forecasts, n) ==
    IF n = 0 THEN [MajorWarning |-> <<>>, Warning |-> <<>>, Advisory |-> <<>>]
    ELSE LET acc == ForecastsByGrade(forecasts, n - 1)
             forecast == forecasts[n]
         IN  IF forecast.grade \in DOMAIN acc /\ ~FalsyStr(forecast.area.name)
             THEN [acc EXCEPT ![forecast.grade] = SetAdd(@, Val(forecast.area.name))]
             ELSE acc

\* mutant: the chain tests the grades in ascending severity
HighestGrade_AdvisoryFirst(forecastsByGrade) ==
    IF forecastsByGrade.Advisory # <<>> THEN "Advisory"
    ELSE IF forecastsByGrade.Warning # <<>> THEN "Warning"
    ELSE IF forecastsByGrade.MajorWarning # <<>> THEN "MajorWarning"
    ELSE "None"

\* the if / else-if chain over the non-empty grades
HighestGrade(forecastsByGrade) ==
    IF forecastsByGrade.MajorWarning # <<>> THEN "MajorWarning"
    ELSE IF forecastsByGrade.Warning # <<>> THEN "Warning"
    ELSE IF forecastsByGrade.Advisory # <<>> THEN "Advisory"
    ELSE "None"

\* what one 552 report does to the map (info.issue is present)
SetTsunamiDetails(map, info) ==
    IF ~Has(info.tsunami) \/ ~Has(Val(info.tsunami).forecasts) THEN map
    ELSE LET forecasts == Val(Val(info.tsunami).forecasts)
             forecastsByGrade == ForecastsByGrade(forecasts, Len(forecasts))
         IN  MapSet(map, CorrelationId(info.issue),
                    [highestGrade |-> HighestGrade(forecastsByGrade),
                     areas |-> forecastsByGrade])

\* tsunamiInfos.forEach over the first n reports; info.issue.event_id throws
\* a TypeError when the report has no issue object
RECURSIVE TsunamiDetails(_, _)
TsunamiDetails(tsunamiInfos, n) ==
    IF n = 0 THEN [threw |-> FALSE, map |-> EmptyMap]
    ELSE LET acc == TsunamiDetails(tsunamiInfos, n - 1)
             info == tsunamiInfos[n]
         IN  IF acc.threw THEN acc
             ELSE IF ~Has(info.issue) THEN [acc EXCEPT !.threw = TRUE]
             ELSE [acc EXCEPT !.map = SetTsunamiDetails(@, info)]

----------------------------------------------------------------------------
(* Step 2: tsunami observations (556) *)

\* the stations of the first n areas, flattened; an area may lack stations
RECURSIVE StationsOf(_, _)
StationsOf(areas, n) ==
    IF n = 0 THEN <<>>
    ELSE StationsOf(areas, n - 1)
         \o (IF Has(areas[n].stations) THEN Val(areas[n].stations) ELSE <<>>)

\* maxObservedHeight after the first n stations, starting from 0
RECURSIVE MaxObservedHeight(_, _)
MaxObservedHeight(stations, n) ==
    IF n = 0 THEN 0
    ELSE LET m == MaxObservedHeight(stations, n - 1)
         IN  IF stations[n].height > m THEN stations[n].height ELSE m

\* what one 556 report does to the map (info.issue is present)
SetTsunamiObservation(map, info) ==
    IF ~Has(info.areas) THEN map
    ELSE LET stations == StationsOf(Val(info.areas), Len(Val(info.areas)))
         IN  MapSet(map, CorrelationId(info.issue),
                    [maxObservedHeight |-> MaxObservedHeight(stations, Len(stations)),
                     stations |-> stations])

RECURSIVE TsunamiObservations(_, _)
TsunamiObservations(observationInfos, n) ==
    IF n = 0 THEN [threw |-> FALSE, map |-> EmptyMap]
    ELSE LET acc == TsunamiObservations(observationInfos, n - 1)
             info == observationInfos[n]
         IN  IF acc.threw THEN acc
             ELSE IF ~Has(info.issue) THEN [acc EXCEPT !.threw = TRUE]
             ELSE [acc EXCEPT !.map = SetTsunamiObservation(@, info)]

----------------------------------------------------------------------------
(* Steps 3 and 4: filter and merge the intensity reports (551) *)

\* the filter of filteredEarthquakes; maxScale is Absent when it is no number
IsListed(eq) ==
    /\ eq.code = 551
    /\ Has(eq.earthquake)
    /\ Has(Val(eq.earthquake).maxScale)
    /\ Val(Val(eq.earthquake).maxScale) >= MIN_LIST_SCALE

\* eq.earthquake?.hypocenter?.name
EpicenterNameOf(eq) ==
    IF Has(eq.earthquake) /\ Has(Val(eq.earthquake).hypocenter)
    THEN Val(Val(eq.earthquake).hypocenter).name
    ELSE Absent

\* eq.earthquake?.time
EventTimeOf(eq) == IF Has(eq.earthquake) THEN Val(eq.earthquake).time ELSE Absent

\* the position of eventKey in uniqueEarthquakesMap, 0 when it has no entry
MapIndex(map, eventKey) ==
    IF \E i \in 1..Len(map) : map[i].key = eventKey
    THEN CHOOSE i \in 1..Len(map) : map[i].key = eventKey
    ELSE 0

\* magnitude === -1 || magnitude === null
InvalidMagnitude(magnitude) == magnitude = Absent \/ magnitude = Some(-1)

\* mutant: the tsunami status of the first report is kept
MergeInto_KeepsStatus(existingEq, eq) ==
    LET old == Val(existingEq.earthquake)
        new == Val(eq.earthquake)
    IN  [existingEq EXCEPT !.earthquake =
            Some([old EXCEPT !.maxScale =
                    IF Val(new.maxScale) > Val(old.maxScale)
                    THEN new.maxScale ELSE old.maxScale])]

\* the three field updates of the merge branch, applied to existingEq
MergeInto(existingEq, eq) ==
    LET old == Val(existingEq.earthquake)
        new == Val(eq.earthquake)
        hypocenter ==
            IF /\ Has(new.hypocenter)
               /\ InvalidMagnitude(Val(old.hypocenter).magnitude)
               /\ ~InvalidMagnitude(Val(new.hypocenter).magnitude)
            THEN new.hypocenter ELSE old.hypocenter
        maxScale ==
            IF Val(new.maxScale) > Val(old.maxScale) THEN new.maxScale ELSE old.maxScale
        domesticTsunami ==
            IF new.domesticTsunami # old.domesticTsunami
            THEN new.domesticTsunami ELSE old.domesticTsunami
    IN  [existingEq EXCEPT !.earthquake =
            Some([old EXCEPT !.hypocenter = hypocenter, !.maxScale = maxScale,
                             !.domesticTsunami = domesticTsunami])]

\* mutant: every incoming report with points replaces the entry
ReplacesEntry_Always(existingEq, eq) == Has(eq.points)

\* !existingEq.points && eq.points: the incoming report replaces the entry
ReplacesEntry(existingEq, eq) == ~Has(existingEq.points) /\ Has(eq.points)

\* the object the field updates of the merge branch are applied to: existingEq
\* was read from the map before the map entry was replaced
MergeTarget(existingRef, incomingRef, replaced) == existingRef

\* one pass of the for loop, for the report at heap position i.
\* st.map is uniqueEarthquakesMap (entries in insertion order), st.heap the
\* report objects.
MergeReport(st, i) ==
    LET eq == st.heap[i]
        eventTime == EventTimeOf(eq)
        epicenterName == EpicenterNameOf(eq)
    IN  IF FalsyStr(eventTime) \/ FalsyStr(epicenterName) THEN st
        ELSE LET eventKey == EventKey(Val(eventTime), Val(epicenterName))
                 at == MapIndex(st.map, eventKey)
             IN  IF at = 0
                 THEN [st EXCEPT !.map = Append(@, [key |-> eventKey, ref |-> i])]
                 ELSE LET existingRef == st.map[at].ref
                          existingEq == st.heap[existingRef]
                          replaced == ReplacesEntry(existingEq, eq)
                          target == MergeTarget(existingRef, i, replaced)
                      IN  [map |-> IF replaced
                                   THEN [st.map EXCEPT ![at].ref = i]
                                   ELSE st.map,
                           heap |-> [st.heap EXCEPT
                                        ![target] = MergeInto(st.heap[target], eq)]]

\* the for loop over the first n reports of filteredEarthquakes
RECURSIVE MergeLoop(_, _)
MergeLoop(filteredEarthquakes, n) ==
    IF n = 0 THEN [map |-> <<>>, heap |-> filteredEarthquakes]
    ELSE MergeReport(MergeLoop(filteredEarthquakes, n - 1), n)

\* Array.from(uniqueEarthquakesMap.values())
UniqueEarthquakes(fetched) ==
    LET filteredEarthquakes == SelectSeq(fetched, IsListed)
        st == MergeLoop(filteredEarthquakes, Len(filteredEarthquakes))
    IN  [i \in 1..Len(st.map) |-> st.heap[st.map[i].ref]]

----------------------------------------------------------------------------
(* processEarthquake *)

\* mutant: the id also depends on the report's maxScale
IdSource_WithMaxScale(eqData) ==
    LET name == IF Has(eqData.hypocenter) THEN Val(eqData.hypocenter).name ELSE Absent
        epicenterName == IF FalsyStr(name) THEN "fumei" ELSE Val(name)
    IN  JsString(eqData.time) \o "_" \o epicenterName \o "_"
            \o ToString(Val(eqData.maxScale))

\* the string digestMessage is called with
IdSource(eqData) ==
    LET name == IF Has(eqData.hypocenter) THEN Val(eqData.hypocenter).name ELSE Absent
        epicenterName == IF FalsyStr(name) THEN "fumei" ELSE Val(name)
    IN  JsString(eqData.time) \o "_" \o epicenterName

\* mutant: the maps are looked up under the synthetic Event id
TsunamiLookupKey_SyntheticId(earthquake, syntheticId) == syntheticId

\* the key of the lookups in the two tsunami maps
TsunamiLookupKey(earthquake, syntheticId) == CorrelationId(earthquake.issue)

\* tsunamiBadges: labels in push order
\*   OotsunamiKeihou = major tsunami warning, TsunamiKeihou = tsunami warning,
\*   TsunamiChuuihou = advisory, TsunamiKansokuchuu = tsunami being observed,
\*   TsunamiNashi = no tsunami, Chousachuu = checking, Fumei = unknown
TsunamiBadges(tsunamiData, tsunamiObservationData, detailedTsunamiGrade) ==
    LET forecast ==
            IF Has(tsunamiData)
            THEN (IF Val(tsunamiData).areas.MajorWarning # <<>>
                  THEN <<"OotsunamiKeihou">> ELSE <<>>)
              \o (IF Val(tsunamiData).areas.Warning # <<>>
                  THEN <<"TsunamiKeihou">> ELSE <<>>)
              \o (IF Val(tsunamiData).areas.Advisory # <<>>
                  THEN <<"TsunamiChuuihou">> ELSE <<>>)
            ELSE <<>>
        observed ==
            IF Has(tsunamiObservationData)
               /\ Val(tsunamiObservationData).maxObservedHeight > 0
            THEN <<"TsunamiKansokuchuu">> ELSE <<>>
        badges == forecast \o observed
    IN  IF badges # <<>> THEN badges
        ELSE IF detailedTsunamiGrade = Some("None") THEN <<"TsunamiNashi">>
        ELSE IF detailedTsunamiGrade = Some("Checking") THEN <<"Chousachuu">>
        ELSE <<>>

\* points with originalAddr added; [] when the report has no points
ProcessedPoints(points) ==
    IF Has(points)
    THEN [i \in 1..Len(Val(points)) |->
            [pref |-> Val(points)[i].pref, addr |-> Val(points)[i].addr,
             scale |-> Val(points)[i].scale, originalAddr |-> Val(points)[i].addr]]
    ELSE <<>>

\* the Event; "fumei" is the label for unknown.  magnitude stands for
\* magnitudeDisplay: the value in tenths for toFixed(1) of it, Absent for the
\* unknown label that null gets.  depth and the two
\* maxShindo strings are functions of the report's depth and maxScale
ProcessEarthquake(earthquake, tsunamiMap, observationMap) ==
    LET eqData == Val(earthquake.earthquake)
        syntheticId == DigestMessage(IdSource(eqData))
        eventId == TsunamiLookupKey(earthquake, syntheticId)
        tsunamiData ==
            IF eventId \in DOMAIN tsunamiMap THEN Some(tsunamiMap[eventId]) ELSE Absent
        tsunamiObservationData ==
            IF eventId \in DOMAIN observationMap
            THEN Some(observationMap[eventId]) ELSE Absent
        detailedTsunamiGrade ==
            IF Has(tsunamiData) THEN Some(Val(tsunamiData).highestGrade)
            ELSE eqData.domesticTsunami
        tsunamiBadges ==
            TsunamiBadges(tsunamiData, tsunamiObservationData, detailedTsunamiGrade)
        name == IF Has(eqData.hypocenter) THEN Val(eqData.hypocenter).name ELSE Absent
    IN  [id |-> syntheticId,
         time |-> FormatDateTime(eqData.time),
         epicenter |-> IF FalsyStr(name) THEN "fumei" ELSE Val(name),
         magnitude |-> IF Has(eqData.hypocenter)
                       THEN Val(eqData.hypocenter).magnitude ELSE Absent,
         tsunami |-> eqData.domesticTsunami,
         tsunamiLabel |-> IF tsunamiBadges # <<>> THEN tsunamiBadges[1] ELSE "Fumei",
         tsunamiBadges |-> tsunamiBadges,
         tsunamiObservation |-> tsunamiObservationData,
         tsunamiForecastAreas |->
            IF Has(tsunamiData) THEN Some(Val(tsunamiData).areas) ELSE Absent,
         maxScale |-> Val(eqData.maxScale),
         points |-> ProcessedPoints(earthquake.points)]

----------------------------------------------------------------------------
(* Text: place names.  A text is the sequence of its characters; a kanji  *)
(* is written as one romanised token, the same kanji always as the same   *)
(* token ("cho" is the kanji of town, whatever its reading).  The empty   *)
(* text <<>> also stands for a missing (undefined) string: the code tests *)
(* both with `!`.                                                         *)

Shi == "shi"        \* the kanji of city
Ku == "ku"          \* ward
Cho == "cho"        \* town
Son == "son"        \* village
Gun == "gun"        \* county
Ken == "ken"        \* prefecture (the generic suffix)
Space == " "
Underscore == "_"

Tokyo == <<"tou", "kyou", "to">>
Hokkaido == <<"hoku", "kai", "dou">>
Kyoto == <<"kyou", "to", "fu">>
Osaka == <<"oo", "saka", "fu">>
Miyagi == <<"miya", "gi", Ken>>
Fukushima == <<"fuku", "shima", Ken>>

\* 'fumei' and 'kansokutenmei fumei', the names for a missing prefecture
\* and a missing address
UnknownPref == <<"fu", "mei">>
UnknownAddr == <<"kan", "soku", "ten", "mei", "fu", "mei">>

StartsWith(text, prefix) ==
    Len(prefix) <= Len(text) /\ SubSeq(text, 1, Len(prefix)) = prefix

EndsWith(text, suffix) ==
    /\ Len(suffix) <= Len(text)
    /\ SubSeq(text, Len(text) - Len(suffix) + 1, Len(text)) = suffix

Includes(text, part) ==
    \E i \in 0..(Len(text) - Len(part)) : SubSeq(text, i + 1, i + Len(part)) = part

\* text.substring(n)
Substring(text, n) == SubSeq(text, n + 1, Len(text))

\* the positions of the characters of `chars` in text
Positions(text, chars) == {i \in 1..Len(text) : text[i] \in chars}

\* text.match(/^.+?A.+?(B1|B2)/): the lazy quantifiers stop at the first A
\* that has a B two or more characters behind it, and at the first such B;
\* Absent when nothing matches
MatchTwo(text, a, bs) ==
    LET as == {i \in Positions(text, {a}) :
                 i >= 2 /\ \E j \in Positions(text, bs) : j >= i + 2}
    IN  IF as = {} THEN Absent
        ELSE LET i == CHOOSE x \in as : \A y \in as : x <= y
                 js == {j \in Positions(text, bs) : j >= i + 2}
                 j == CHOOSE x \in js : \A y \in js : x <= y
             IN  Some(SubSeq(text, 1, j))

\* a pattern that matches every text whole
MatchOne_Whole(text, bs) == Some(text)

\* text.match(/^.+?(B1|B2|..)/): up to the first B behind the first character
MatchOne(text, bs) ==
    LET js == {j \in Positions(text, bs) : j >= 2}
    IN  IF js = {} THEN Absent
        ELSE Some(SubSeq(text, 1, CHOOSE x \in js : \A y \in js : x <= y))

----------------------------------------------------------------------------
(* KANA_DICT and getMunicipality *)

\* Object.keys(KANA_DICT): the names in insertion order
Keys(dict) == [i \in 1..Len(dict) |-> dict[i].name]

\* dict[name] = kana: a new name goes to the end, a known one keeps its place
DictSet(dict, name, kana) ==
    IF \E i \in 1..Len(dict) : dict[i].name = name
    THEN [i \in 1..Len(dict) |->
            IF dict[i].name = name THEN [name |-> name, kana |-> kana] ELSE dict[i]]
    ELSE Append(dict, [name |-> name, kana |-> kana])

\* newDict of buildKanaDictionary after the first n areas
RECURSIVE NewDict(_, _)
NewDict(areas, n) ==
    IF n = 0 THEN <<>>
    ELSE LET area == areas[n]
             before == NewDict(areas, n - 1)
         IN  IF area.name # <<>> /\ area.kana # <<>>
             THEN DictSet(before, area.name, area.kana)
             ELSE before

\* the first element of a sequence that passes Test(_), Absent when none
First(seq, Test(_)) ==
    LET hits == {i \in 1..Len(seq) : Test(seq[i])}
    IN  IF hits = {} THEN Absent
        ELSE Some(seq[CHOOSE i \in hits : \A k \in hits : i <= k])

\* a sort that leaves the keys in insertion order
SortByLength_Unsorted(keys) == keys

\* keys.sort((a, b) => b.length - a.length): longest first, the sort is
\* stable
RECURSIVE SortByLength(_)
SortByLength(keys) ==
    IF keys = <<>> THEN <<>>
    ELSE LET longest == {i \in 1..Len(keys) :
                            \A k \in 1..Len(keys) : Len(keys[k]) <= Len(keys[i])}
             i == CHOOSE x \in longest : \A y \in longest : x <= y
         IN  <<keys[i]>> \o SortByLength(SubSeq(keys, 1, i - 1)
                                          \o SubSeq(keys, i + 1, Len(keys)))

\* remainingAddr: addr without its prefecture
RemainingAddr(addr, pref) ==
    IF StartsWith(addr, pref) THEN Substring(addr, Len(pref))
    ELSE LET strip(text, p) == IF StartsWith(text, p) THEN Substring(text, Len(p))
                                ELSE text
             stripped == strip(strip(strip(strip(addr, Tokyo), Hokkaido), Kyoto), Osaka)
             prefIndex == Positions(stripped, {Ken})
         IN  IF prefIndex # {}
             THEN Substring(stripped, CHOOSE x \in prefIndex : \A y \in prefIndex : x <= y)
             ELSE stripped

\* Object.keys(KANA_DICT).find(...): the first key, in insertion order, that
\* the address ends with or holds in front of a space
DirectMatch(addr, dict) ==
    LET IsDirect(key) ==
            /\ Includes(addr, key)
            /\ (EndsWith(addr, key) \/ Includes(addr, key \o <<Space>>))
    IN  First(Keys(dict), IsDirect)

\* getMunicipality(addr, pref) with the dictionary KANA_DICT = dict
GetMunicipality(addr, pref, dict) ==
    IF addr = <<>> \/ pref = <<>>
    THEN (IF pref = <<>> THEN UnknownPref ELSE pref) \o <<Underscore>>
         \o (IF addr = <<>> THEN UnknownAddr ELSE addr)
    ELSE
    LET directMatch == DirectMatch(addr, dict)
        remainingAddr == RemainingAddr(addr, pref)
        cityAndWardMatch == MatchTwo(remainingAddr, Shi, {Ku})
        gunMatch == MatchTwo(remainingAddr, Gun, {Cho, Son})
        IsForward(key) == StartsWith(remainingAddr, key)
        forwardMatch == First(SortByLength(Keys(dict)), IsForward)
        cityTownVillageMatch == MatchOne(remainingAddr, {Shi, Ku, Cho, Son})
    IN  IF Has(directMatch) THEN pref \o <<Underscore>> \o Val(directMatch)
        ELSE IF Has(cityAndWardMatch) THEN pref \o <<Underscore>> \o Val(cityAndWardMatch)
        ELSE IF Has(gunMatch) THEN pref \o <<Underscore>> \o Val(gunMatch)
        ELSE IF Has(forwardMatch) THEN pref \o <<Underscore>> \o Val(forwardMatch)
        ELSE IF Has(cityTownVillageMatch)
             THEN pref \o <<Underscore>> \o Val(cityTownVillageMatch)
        ELSE pref \o <<Underscore>> \o addr

----------------------------------------------------------------------------
(* The pages of the fixed bar.  The html of a page is the sequence of its *)
(* items (join puts the separator between them), an item is a text; the   *)
(* texts of the summary pages are items of tokens that name their parts.  *)

\* doesTextFitInTwoLines(html, contentLine1): what the surface measures.
\* The surface is the set of pairs <<first item, number of items>> of the
\* html that fits.
DoesTextFitInTwoLines(htmlContent, surface) ==
    <<htmlContent[1], Len(htmlContent)>> \in surface

ScaleToShindo(scale) ==
    CASE scale = 10 -> "Shindo1"
      [] scale = 20 -> "Shindo2"
      [] scale = 30 -> "Shindo3"
      [] scale = 40 -> "Shindo4"
      [] scale = 45 -> "Shindo5Jaku"
      [] scale = 50 -> "Shindo5Kyou"
      [] scale = 55 -> "Shindo6Jaku"
      [] scale = 60 -> "Shindo6Kyou"
      [] scale = 70 -> "Shindo7"
      [] OTHER -> "ShindoFumei"

\* SHINDO_SORT_ORDER[label] || 0
ShindoSortOrder(label) ==
    CASE label = "Shindo7" -> 9
      [] label = "Shindo6Kyou" -> 8
      [] label = "Shindo6Jaku" -> 7
      [] label = "Shindo5Kyou" -> 6
      [] label = "Shindo5Jaku" -> 5
      [] label = "Shindo4" -> 4
      [] label = "Shindo3" -> 3
      [] label = "Shindo2" -> 2
      [] label = "Shindo1" -> 1
      [] OTHER -> 0

\* shindoGroup after the first n points: the labels in insertion order,
\* each with the Set of its names
RECURSIVE ShindoGroup(_, _, _, _, _)
ShindoGroup(rawPoints, n, mode, minScale, dict) ==
    IF n = 0 THEN <<>>
    ELSE LET acc == ShindoGroup(rawPoints, n - 1, mode, minScale, dict)
             point == rawPoints[n]
             shindoLabel == ScaleToShindo(point.scale)
             name == IF mode = "municipality"
                     THEN GetMunicipality(point.addr, point.pref, dict)
                     ELSE IF point.addr = <<>> THEN UnknownAddr ELSE point.addr
         IN  IF point.scale < minScale THEN acc
             ELSE IF \E i \in 1..Len(acc) : acc[i].shindo = shindoLabel
             THEN [i \in 1..Len(acc) |->
                     IF acc[i].shindo = shindoLabel
                     THEN [acc[i] EXCEPT !.cities = SetAdd(@, name)] ELSE acc[i]]
             ELSE Append(acc, [shindo |-> shindoLabel, cities |-> <<name>>])

\* sort by descending SHINDO_SORT_ORDER; the sort is stable
RECURSIVE SortByShindo(_)
SortByShindo(groups) ==
    IF groups = <<>> THEN <<>>
    ELSE LET top == {i \in 1..Len(groups) :
                        \A k \in 1..Len(groups) :
                            ShindoSortOrder(groups[k].shindo)
                                <= ShindoSortOrder(groups[i].shindo)}
             i == CHOOSE x \in top : \A y \in top : x <= y
         IN  <<groups[i]>> \o SortByShindo(SubSeq(groups, 1, i - 1)
                                            \o SubSeq(groups, i + 1, Len(groups)))

GroupPointsByShindoAndMode(rawPoints, mode, minScale, dict) ==
    SortByShindo(ShindoGroup(rawPoints, Len(rawPoints), mode, minScale, dict))

\* text.split('_')[1] when text holds '_', text itself otherwise: the part
\* between the first and the second separator
CityName(city) ==
    LET marks == Positions(city, {Underscore})
    IN  IF marks = {} THEN city
        ELSE LET first == CHOOSE x \in marks : \A y \in marks : x <= y
                 later == {x \in marks : x > first}
                 last == IF later = {} THEN Len(city) + 1
                         ELSE CHOOSE x \in later : \A y \in later : x <= y
             IN  SubSeq(city, first + 1, last - 1)

\* a loop that never closes a page
Overflows_Never(testItems, pageItems, surface) == FALSE

\* the test of the loop: the page with the item does not fit and the page
\* holds something
Overflows(testItems, pageItems, surface) ==
    ~DoesTextFitInTwoLines(testItems, surface) /\ pageItems # <<>>

\* a loop that starts the next page empty
NextPage_Empty(item) == <<>>

\* the page the loop starts with the item that did not fit
NextPage(item) == <<item>>

\* the loop of a paginator over the first n items: the pages it has pushed
\* and the items of the page it is filling
RECURSIVE PageLoop(_, _, _)
PageLoop(items, n, surface) ==
    IF n = 0 THEN [pages |-> <<>>, pageItems |-> <<>>]
    ELSE LET acc == PageLoop(items, n - 1, surface)
             testItems == Append(acc.pageItems, items[n])
         IN  IF Overflows(testItems, acc.pageItems, surface)
             THEN [pages |-> Append(acc.pages, acc.pageItems),
                   pageItems |-> NextPage(items[n])]
             ELSE [acc EXCEPT !.pageItems = testItems]

\* the pages of a paginator: the loop and the flush of the last page
Paginate(items, surface) ==
    LET loop == PageLoop(items, Len(items), surface)
    IN  IF loop.pageItems # <<>> THEN Append(loop.pages, loop.pageItems)
        ELSE loop.pages

View(type, shindo, line1) == [type |-> type, shindo |-> shindo, line1 |-> line1]

\* the views of a list of pages
Views(type, shindo, pages) ==
    [i \in 1..Len(pages) |-> View(type, shindo, pages[i])]

\* createTsunamiAreaViews(areas, title, badgeClass): the views it pushes
CreateTsunamiAreaViews(areas, title, surface) ==
    Views("summary", title, Paginate([i \in 1..Len(areas) |-> <<areas[i]>>], surface))

\* [...stations].sort((a, b) => b.height - a.height); the sort is stable
RECURSIVE SortByHeight(_)
SortByHeight(stations) ==
    IF stations = <<>> THEN <<>>
    ELSE LET top == {i \in 1..Len(stations) :
                        \A k \in 1..Len(stations) :
                            stations[k].height <= stations[i].height}
             i == CHOOSE x \in top : \A y \in top : x <= y
         IN  <<stations[i]>> \o SortByHeight(SubSeq(stations, 1, i - 1)
                                             \o SubSeq(stations, i + 1, Len(stations)))

\* stationText: the name and the height to one decimal, "ijou" (or more)
\* from 10 m on; the model counts heights in cm
StationText(station) ==
    LET tenths == (station.height + 5) \div 10
    IN  <<station.name, ToString(tenths \div 10), ".", ToString(tenths % 10), "m">>
        \o (IF station.height >= 1000 THEN <<"ijou">> ELSE <<>>)

\* the pages of the observation stations
StationViews(stations, surface) ==
    LET sortedStations == SortByHeight(stations)
    IN  Views("shindo", "TsunamiKansokuchuu",
              Paginate([i \in 1..Len(sortedStations) |-> StationText(sortedStations[i])],
                       surface))

\* the pages of one intensity group
CityViews(group, surface) ==
    Views("shindo", group.shindo,
          Paginate([i \in 1..Len(group.cities) |-> CityName(group.cities[i])], surface))

RECURSIVE GroupViews(_, _, _)
GroupViews(shindoGroups, n, surface) ==
    IF n = 0 THEN <<>>
    ELSE GroupViews(shindoGroups, n - 1, surface) \o CityViews(shindoGroups[n], surface)

\* formatTimeForTelop(timePart) of an Event time: am or pm, hour, minute
FormatTimeForTelop(time) ==
    CASE time = "2025/01/01 12:00" -> <<"gogo", "12", "ji", "0", "fun">>
      [] time = "2025/01/01 12:05" -> <<"gogo", "12", "ji", "5", "fun">>
      [] OTHER -> <<>>

\* displayTime: the time alone for an Event of today, with month and day
\* for another day
DisplayTime(time, today) ==
    IF today THEN FormatTimeForTelop(time) \o <<"goro">>
    ELSE (CASE time \in {"2025/01/01 12:00", "2025/01/01 12:05"}
                 -> <<"1", "gatsu", "1", "nichi">>
            [] OTHER -> <<"NaN", "gatsu", "NaN", "nichi">>)
         \o FormatTimeForTelop(time) \o <<"goro">>

\* a text on one page when it fits, its two parts on two pages otherwise
SplitViews(part1, part2, surface) ==
    IF ~DoesTextFitInTwoLines(<<part1 \o part2>>, surface)
    THEN <<View("summary", "Gaikyou", <<part1>>), View("summary", "Gaikyou", <<part2>>)>>
    ELSE <<View("summary", "Gaikyou", <<part1 \o part2>>)>>

\* the page of the tsunami label, for the labels that have a message
TsunamiMessageViews(tsunamiLabel) ==
    IF tsunamiLabel \in {"OotsunamiKeihou", "TsunamiKeihou", "TsunamiChuuihou"}
    THEN <<View("summary", tsunamiLabel, <<<<"happyou", tsunamiLabel>>>>)>>
    ELSE IF tsunamiLabel = "Chousachuu"
    THEN <<View("summary", "Tsunami", <<<<"kishouchou ga chousachuu">>>>)>>
    ELSE IF tsunamiLabel = "TsunamiNashi"
    THEN <<View("summary", "Tsunami", <<<<"tsunami no shinpai nashi">>>>)>>
    ELSE <<>>

\* views.forEach((v, i) => { v.pageCurrent = i + 1; v.pageTotal = total })
Numbered(views) ==
    [i \in 1..Len(views) |->
        [type |-> views[i].type, shindo |-> views[i].shindo, line1 |-> views[i].line1,
         pageCurrent |-> i, pageTotal |-> Len(views)]]

\* FIXED_BAR_VIEWS that updateFixedShindoBar(eq) builds for an Event: the
\* summary pages, the tsunami pages, the page that announces the
\* intensities and the pages of the intensity groups, numbered.  The depth
\* of the hypocenter is not part of the modelled report: depthText is the
\* token "depth".
FixedBarViews(eq, minScale, dict, surface, today) ==
    LET displayTime == DisplayTime(eq.time, today)
        quake == SplitViews(displayTime \o <<eq.epicenter, "wo shingen to suru">>,
                            <<"saidai", ScaleToShindo(eq.maxScale), "no jishin">>, surface)
        magnitude ==
            IF Has(eq.magnitude)
            THEN SplitViews(<<"shingen no fukasa wa", "depth">>,
                            <<"magnitude", ToString(Val(eq.magnitude))>>, surface)
            ELSE <<>>
        areas ==
            IF Has(eq.tsunamiForecastAreas)
            THEN CreateTsunamiAreaViews(Val(eq.tsunamiForecastAreas).MajorWarning,
                                        "OotsunamiKeihou", surface)
                 \o CreateTsunamiAreaViews(Val(eq.tsunamiForecastAreas).Warning,
                                           "TsunamiKeihou", surface)
                 \o CreateTsunamiAreaViews(Val(eq.tsunamiForecastAreas).Advisory,
                                           "TsunamiChuuihou", surface)
            ELSE <<>>
        stations ==
            IF Has(eq.tsunamiObservation) /\ Val(eq.tsunamiObservation).stations # <<>>
            THEN StationViews(Val(eq.tsunamiObservation).stations, surface)
            ELSE <<>>
        finalTextView == View("summary", "ShindoJouhou", <<<<"kakuchi no shindo">>>>)
        Groups(shindoGroups) == GroupViews(shindoGroups, Len(shindoGroups), surface)
    IN  Once(quake \o magnitude \o TsunamiMessageViews(eq.tsunamiLabel) \o areas
             \o stations \o <<finalTextView>>
             \o Once(GroupPointsByShindoAndMode(eq.points, "municipality", minScale, dict),
                     Groups),
             Numbered)

----------------------------------------------------------------------------
(* getKana and the override table MANUAL_KANA_DICT.  A value that         *)
(* JSON.parse may give is an object, written as its entries [name, kana]  *)
(* in insertion order, or null.  A JSON text is written as the value it   *)
(* parses to, or as a text that does not parse.                           *)

EmptyTable == [kind |-> "object", entries |-> <<>>]
NullValue == [kind |-> "null", entries |-> <<>>]
Table(entries) == [kind |-> "object", entries |-> entries]

\* JSON.stringify(value)
JsonStringify(value) == [valid |-> TRUE, value |-> value]

\* a text that JSON.parse throws on
InvalidJson == [valid |-> FALSE, value |-> NullValue]

\* loadManualKanaDict: MANUAL_KANA_DICT behind it
LoadManualKanaDict(manual, item) ==
    IF Has(item) /\ Val(item).valid THEN Val(item).value ELSE manual

\* table.hasOwnProperty(key) of an object
HasOwnProperty(table, key) ==
    \E i \in 1..Len(table.entries) : table.entries[i].name = key

\* dict[name], the empty text for undefined
DictGet(dict, name) ==
    IF \E i \in 1..Len(dict) : dict[i].name = name
    THEN dict[CHOOSE i \in 1..Len(dict) : dict[i].name = name].kana
    ELSE <<>>

\* the hiragana of a katakana character, the character itself for any other
Hiragana(char) ==
    CASE char = "SEN" -> "sen_"
      [] char = "DAI" -> "dai_"
      [] char = "SHI" -> "shi_"
      [] char = "MI" -> "mi_"
      [] char = "YAKE" -> "yake_"
      [] char = "JIMA" -> "jima_"
      [] OTHER -> char

\* katakanaToHiragana(str)
KatakanaToHiragana(str) == [i \in 1..Len(str) |-> Hiragana(str[i])]

OpenParen == "("
CloseParen == ")"

\* text.replace(/(.+?)/g, '') with full-width parentheses: every opening
\* parenthesis that has a closing one two or more characters behind it goes
\* with all up to the first such closing one
RECURSIVE StripParens(_)
StripParens(text) ==
    LET opens == {i \in Positions(text, {OpenParen}) :
                    \E j \in Positions(text, {CloseParen}) : j >= i + 2}
    IN  IF opens = {} THEN text
        ELSE LET i == CHOOSE x \in opens : \A y \in opens : x <= y
                 closes == {j \in Positions(text, {CloseParen}) : j >= i + 2}
                 j == CHOOSE x \in closes : \A y \in closes : x <= y
             IN  SubSeq(text, 1, i - 1) \o StripParens(Substring(text, j))

\* getKana(kanji) with MANUAL_KANA_DICT = manual and KANA_DICT = dict: the
\* text it returns, Absent when it throws (null has no hasOwnProperty)
GetKana(manual, dict, kanji) ==
    LET municipality == CityName(kanji)
        reading == IF DictGet(dict, municipality) # <<>> THEN DictGet(dict, municipality)
                   ELSE DictGet(dict, StripParens(municipality))
    IN  IF kanji = <<>> THEN Some(<<>>)
        ELSE IF manual.kind = "null" THEN Absent
        ELSE IF HasOwnProperty(manual, kanji) THEN Some(DictGet(manual.entries, kanji))
        ELSE Some(KatakanaToHiragana(reading))

\* item.cities of every group, in the order of the groups
RECURSIVE CityKeys(_)
CityKeys(groups) ==
    IF groups = <<>> THEN <<>> ELSE groups[1].cities \o CityKeys(Tail(groups))

\* the entries behind the loop that registers the first n cities without
\* a reading, each with the empty text
RECURSIVE Registered(_, _, _, _)
Registered(entries, dict, cityKeys, n) ==
    IF n = 0 THEN entries
    ELSE Once(Registered(entries, dict, cityKeys, n - 1),
              LAMBDA before :
                IF /\ GetKana(Table(before), dict, cityKeys[n]) = Some(<<>>)
                   /\ DictGet(before, cityKeys[n]) = <<>>
                   /\ ~Includes(cityKeys[n], UnknownPref)
                THEN DictSet(before, cityKeys[n], <<>>)
                ELSE before)

\* displayEarthquakeDetails(eq) in the municipality mode, up to its call of
\* updateFixedShindoBar: the cities without a reading are registered and
\* the table is saved when one was (a city is registered when it has no
\* reading, and then it has none behind the loop either); with the table
\* null the first getKana throws
DisplayEarthquakeDetails(manual, item, eq, dict) ==
    Once(CityKeys(GroupPointsByShindoAndMode(eq.points, "municipality",
                                             MIN_DETAIL_SCALE, dict)),
         LAMBDA cityKeys :
            IF cityKeys = <<>> THEN [manual |-> manual, item |-> item, thrown |-> FALSE]
            ELSE IF manual.kind = "null"
            THEN [manual |-> manual, item |-> item, thrown |-> TRUE]
            ELSE Once(Table(Registered(manual.entries, dict, cityKeys, Len(cityKeys))),
                      LAMBDA table :
                        [manual |-> table,
                         item |-> IF \E i \in 1..Len(cityKeys) :
                                        /\ GetKana(table, dict, cityKeys[i]) = Some(<<>>)
                                        /\ ~Includes(cityKeys[i], UnknownPref)
                                  THEN Some(JsonStringify(table)) ELSE item,
                         thrown |-> FALSE]))

----------------------------------------------------------------------------
(* handleEew: the queue of early-warning alerts *)

\* the record of the variables of the alert
Eew ==
    [queue |-> eewQueue, playSound |-> playEewSound, playing |-> eewAudioPlaying,
     index |-> currentEewIndex, displayId |-> eewDisplayIntervalId,
     clearId |-> eewClearTimeoutId, text |-> eewAlertText, timers |-> eewTimers]

\* the variables take the values of the record
SetEew(e) ==
    /\ eewQueue' = e.queue
    /\ playEewSound' = e.playSound
    /\ eewAudioPlaying' = e.playing
    /\ currentEewIndex' = e.index
    /\ eewDisplayIntervalId' = e.displayId
    /\ eewClearTimeoutId' = e.clearId
    /\ eewAlertText' = e.text
    /\ eewTimers' = e.timers

\* the id of a new timer: one that no armed timer has and that neither
\* variable holds
NewTimerId(e) ==
    CHOOSE id \in 1..4 : id \notin e.timers \cup Elems(e.displayId) \cup Elems(e.clearId)

\* clearInterval(id) and clearTimeout(id), no-ops for null
ClearTimer(timers, id) == timers \ Elems(id)

\* startEewDisplayCycle: the rotation timer is cleared when the queue holds
\* more than one alert, and armed only when eewDisplayIntervalId is null
StartEewDisplayCycle(e) ==
    LET cleared ==
            [e EXCEPT !.timers =
                ClearTimer(IF Len(e.queue) > 1 THEN ClearTimer(@, e.displayId) ELSE @,
                           e.clearId)]
        shown == [cleared EXCEPT !.index = 0,
                                 !.text = IF e.queue # <<>> THEN Some(e.queue[1]) ELSE @]
        rotating ==
            IF ~Has(shown.displayId)
            THEN [shown EXCEPT !.displayId = Some(NewTimerId(shown)),
                               !.timers = @ \cup {NewTimerId(shown)}]
            ELSE shown
    IN  [rotating EXCEPT !.clearId = Some(NewTimerId(rotating)),
                         !.timers = @ \cup {NewTimerId(rotating)}]

\* stopEewDisplayCycle
StopEewDisplayCycle(e) ==
    [e EXCEPT !.timers = ClearTimer(ClearTimer(@, e.displayId), e.clearId),
              !.displayId = Absent, !.queue = <<>>, !.text = Absent]

\* handleEew(eewData); eewAudioObject is the Audio that window.onload
\* preloads
HandleEew(e, eewData) ==
    IF ~Has(eewData.earthquake) THEN e
    ELSE LET sounded == IF e.playSound THEN [e EXCEPT !.playing = TRUE] ELSE e
         IN  IF \E i \in 1..Len(e.queue) : e.queue[i] = eewData.id THEN sounded
             ELSE StartEewDisplayCycle([sounded EXCEPT !.queue = Append(@, eewData.id)])

\* the callback of the rotation timer
EewRotation(e) ==
    IF Len(e.queue) > 1
    THEN [e EXCEPT !.index = (e.index + 1) % Len(e.queue),
                   !.text = Some(e.queue[((e.index + 1) % Len(e.queue)) + 1])]
    ELSE e

----------------------------------------------------------------------------
(* The poll *)

\* data after the for loop over the settled fetches: the lists of the
\* fulfilled, ok responses in the order of urls
\* a poll that reads the body of every fulfilled response, ok or not
Fetched_ReadsErrorBody(served, settled, n) ==
    LET body(c) == IF settled[c] # "rejected" THEN served[c] ELSE <<>>
    IN  body(551) \o body(552) \o body(556) \o body(554)

RECURSIVE Fetched(_, _, _)
Fetched(served, settled, n) ==
    IF n = 0 THEN <<>>
    ELSE Fetched(served, settled, n - 1)
         \o (IF settled[Urls[n]] = "ok" THEN served[Urls[n]] ELSE <<>>)

\* a settled fetch is "ok", "http_error" (response.ok false) or "rejected";
\* before the first poll the fetches are "pending"
Outcomes == {"ok", "http_error", "rejected"}

AllOk == [c \in {551, 552, 556, 554} |-> "ok"]

IsForecast(d) == d.code = 552
IsObservation(d) == d.code = 556 /\ ~d.cancelled
IsEew(item) == item.code = 554

\* everything fetchEarthquakeData computes from the fetched list; threw is
\* TRUE when one of the forEach callbacks raised a TypeError
Aggregate(fetched) ==
    LET tsunamiInfos == SelectSeq(fetched, IsForecast)
        forecasts == TsunamiDetails(tsunamiInfos, Len(tsunamiInfos))
        observationInfos == SelectSeq(fetched, IsObservation)
        observations ==
            IF forecasts.threw THEN [threw |-> TRUE, map |-> EmptyMap]
            ELSE TsunamiObservations(observationInfos, Len(observationInfos))
        uniqueEarthquakes == UniqueEarthquakes(fetched)
    IN  [threw |-> observations.threw,
         tsunamiDetailsMap |-> forecasts.map,
         tsunamiObservationMap |-> observations.map,
         processed |->
            IF observations.threw THEN <<>>
            ELSE [i \in 1..Len(uniqueEarthquakes) |->
                    ProcessEarthquake(uniqueEarthquakes[i], forecasts.map,
                                      observations.map)]]

\* fetchEarthquakeData in live mode behind the await of its fetches, which
\* settle as `settled`; `shown` tells whether the banner, hidden before the
\* await, is shown again by now
FetchSettles(settled, shown) ==
    LET fetched == Fetched(upstream, settled, Len(Urls))
        eewInfos == SelectSeq(fetched, IsEew)
        result == Aggregate(fetched)
    IN  /\ data' = fetched
        /\ SetEew(IF eewInfos # <<>> THEN HandleEew(Eew, eewInfos[1]) ELSE Eew)
        /\ tsunamiDetailsMap' = result.tsunamiDetailsMap
        /\ tsunamiObservationMap' = result.tsunamiObservationMap
        /\ IF result.threw
           THEN \* catch: the banner is shown, [] is returned
                /\ errorShown' = TRUE
                /\ earthquakes' = <<>>
                /\ UNCHANGED PROCESSED_EARTHQUAKES
           ELSE /\ errorShown' = shown
                /\ earthquakes' = result.processed
                /\ PROCESSED_EARTHQUAKES' = result.processed
        /\ results' = settled

\* fetchEarthquakeData in live mode, the four fetches settling as `settled`
FetchEarthquakeData(settled) ==
    /\ FetchSettles(settled, FALSE)
    /\ UNCHANGED <<upstream, resolverVars, uiVars>>

\* the API gets a new report; it serves the newest first
Publish(report) ==
    /\ Len(upstream[551]) + Len(upstream[552]) + Len(upstream[556])
         + Len(upstream[554]) < MaxReports
    /\ upstream' = [upstream EXCEPT ![report.code] = <<report>> \o @]
    /\ UNCHANGED <<pollVars, resolverVars, uiVars, alertVars>>

\* the oldest report of a kind leaves the history the API serves, which is
\* cut to limit=100 reports
Expire(code) ==
    /\ upstream[code] # <<>>
    /\ upstream' = [upstream EXCEPT ![code] = SubSeq(@, 1, Len(@) - 1)]
    /\ UNCHANGED <<pollVars, resolverVars, uiVars, alertVars>>

NoTimeouts == [startAutoplay |-> 0, endAutoplay |-> 0, enableRefresh |-> 0]

\* the state of a page that starts to load, but for what the API serves
\* and for the surface of the bar
InitPage ==
    /\ data = <<>>
    /\ tsunamiDetailsMap = EmptyMap
    /\ tsunamiObservationMap = EmptyMap
    /\ earthquakes = <<>>
    /\ PROCESSED_EARTHQUAKES = <<>>
    /\ errorShown = FALSE
    /\ eewQueue = <<>>
    /\ results = [c \in {551, 552, 556, 554} |-> "pending"]
    /\ KANA_DICT = <<>>
    /\ resolved = Absent
    /\ MANUAL_KANA_DICT = EmptyTable
    /\ kanaCall = Absent
    /\ loopPlaybackMinScale = 30
    /\ USE_DUMMY_DATA = FALSE
    /\ selectedCardId = Absent
    /\ FIXED_BAR_VIEWS = <<>>
    /\ CURRENT_SHINDO_INDEX = 0
    /\ isAutoplaying = FALSE
    /\ isWaitingForAutoplay = FALSE
    /\ autoplayLoopCounter = 0
    /\ autoplayIntervalId = Absent
    /\ refreshIntervalId = Absent
    /\ intervals = EmptyMap
    /\ timeouts = NoTimeouts
    /\ refreshButtonDisabled = FALSE
    /\ controlsLocked = FALSE
    /\ barContent = Absent
    /\ prevDisabled = FALSE
    /\ nextDisabled = FALSE
    /\ pageLookup = Absent
    /\ slideTimeouts = <<>>
    /\ LAST_FETCH_TIME = Absent
    /\ inFlight = <<>>
    /\ loaded = "start"
    /\ playEewSound = TRUE
    /\ eewAudioPlaying = FALSE
    /\ currentEewIndex = 0
    /\ eewDisplayIntervalId = Absent
    /\ eewClearTimeoutId = Absent
    /\ eewAlertText = Absent
    /\ eewTimers = {}

Init ==
    /\ upstream = [c \in {551, 552, 556, 554} |-> <<>>]
    /\ contentLine1 = {}
    /\ manualKanaDictionary = Absent
    /\ InitPage

\* buildKanaDictionary, which window.onload runs once: area.json lists
\* `areas`; a failed fetch leaves KANA_DICT empty as the empty list does
BuildKanaDictionary(areas) ==
    /\ loaded = "start"
    /\ KANA_DICT = <<>>
    /\ KANA_DICT' = NewDict(areas, Len(areas))
    /\ UNCHANGED <<upstream, pollVars, resolved, kanaVars, uiVars, alertVars>>

\* groupPointsByShindoAndMode resolves the municipality of a point
ResolvePoint(point) ==
    /\ resolved' = Some([addr |-> point.addr, pref |-> point.pref,
                         name |-> GetMunicipality(point.addr, point.pref, KANA_DICT)])
    /\ UNCHANGED <<upstream, pollVars, KANA_DICT, kanaVars, uiVars, alertVars>>

----------------------------------------------------------------------------
(* The fixed bar and playback.  The functions below take the state they   *)
(* work on as the record u and give the state they leave.                 *)

\* the record of the variables that the functions of playback read and write
Ui ==
    [views |-> FIXED_BAR_VIEWS, index |-> CURRENT_SHINDO_INDEX,
     selected |-> selectedCardId, playing |-> isAutoplaying,
     waiting |-> isWaitingForAutoplay, loops |-> autoplayLoopCounter,
     autoplayId |-> autoplayIntervalId, refreshId |-> refreshIntervalId,
     intervals |-> intervals, timeouts |-> timeouts,
     refreshDisabled |-> refreshButtonDisabled, locked |-> controlsLocked,
     shown |-> barContent, prevDisabled |-> prevDisabled,
     nextDisabled |-> nextDisabled, lookup |-> pageLookup,
     slides |-> slideTimeouts, fetchTime |-> LAST_FETCH_TIME]

\* the variables take the values of the record
SetUi(u) ==
    \E left \in {u} :
        /\ FIXED_BAR_VIEWS' = left.views
        /\ CURRENT_SHINDO_INDEX' = left.index
        /\ selectedCardId' = left.selected
        /\ isAutoplaying' = left.playing
        /\ isWaitingForAutoplay' = left.waiting
        /\ autoplayLoopCounter' = left.loops
        /\ autoplayIntervalId' = left.autoplayId
        /\ refreshIntervalId' = left.refreshId
        /\ intervals' = left.intervals
        /\ timeouts' = left.timeouts
        /\ refreshButtonDisabled' = left.refreshDisabled
        /\ controlsLocked' = left.locked
        /\ barContent' = left.shown
        /\ prevDisabled' = left.prevDisabled
        /\ nextDisabled' = left.nextDisabled
        /\ pageLookup' = left.lookup
        /\ slideTimeouts' = left.slides
        /\ LAST_FETCH_TIME' = left.fetchTime

\* the id setInterval returns: one that no armed timer has
NewId(armed) ==
    CHOOSE id \in 1..(Cardinality(DOMAIN armed) + 1) : id \notin DOMAIN armed

\* setInterval(callback): the armed timers with the new one
SetInterval(armed, callback) == armed @@ (NewId(armed) :> callback)

\* clearInterval(id), a no-op for null
ClearInterval(armed, id) ==
    IF Has(id) THEN [x \in (DOMAIN armed) \ {Val(id)} |-> armed[x]] ELSE armed

RefreshCallback == [callback |-> "refreshData", totalLoops |-> Absent]

\* the callback of startAutoplay; totalLoops is Absent for Infinity
AutoplayCallback(totalLoops) == [callback |-> "autoplay", totalLoops |-> totalLoops]

\* the views startAutoplay and the last loop show; their page marks are
\* written 0
StartView ==
    [type |-> "system", shindo |-> "jouhou", line1 |-> <<<<"jishin jouhou">>>>,
     pageCurrent |-> 0, pageTotal |-> 0]
EndView ==
    [type |-> "system", shindo |-> "shuuryou", line1 |-> <<<<"jishin jouhou shuuryou">>>>,
     pageCurrent |-> 0, pageTotal |-> 0]

\* the value of #transition-effect
Effects == {"cut", "slide"}

\* an updateNavControls that enables both buttons
UpdateNavControls_Enabled(u) ==
    [u EXCEPT !.prevDisabled = FALSE, !.nextDisabled = FALSE]

\* updateNavControls: the buttons of the pager
UpdateNavControls(u) ==
    [u EXCEPT !.prevDisabled = u.playing \/ u.index = 0,
              !.nextDisabled = u.playing \/ u.index = Len(u.views) - 1]

\* FIXED_BAR_VIEWS[CURRENT_SHINDO_INDEX] gives a view
InRange(lookup) == lookup.index >= 0 /\ lookup.index < lookup.length

\* updateFixedBarDisplay(overrideView, direction), overrideView Absent for
\* null, while #transition-effect holds `effect`.  A lookup out of range
\* gives undefined, on which renderContent or updateNavControls throws: the
\* display and the buttons stay as they are.
UpdateFixedBarDisplay(u, overrideView, direction, effect) ==
    IF Len(u.views) = 0 /\ ~Has(overrideView) THEN u
    ELSE IF Has(overrideView)
    THEN UpdateNavControls([u EXCEPT !.shown = overrideView])
    ELSE LET looked == [u EXCEPT !.lookup = Some([index |-> u.index,
                                                  length |-> Len(u.views)])]
         IN  IF ~InRange(Val(looked.lookup)) THEN looked
             ELSE IF effect = "slide" /\ direction # "none"
             THEN UpdateNavControls(
                      [looked EXCEPT !.slides = Append(@, u.views[u.index + 1])])
             ELSE UpdateNavControls(
                      [looked EXCEPT !.shown = Some(u.views[u.index + 1])])

\* updateFixedBarDisplay threw on the lookup it made last
Threw(u) == Has(u.lookup) /\ ~InRange(Val(u.lookup))

\* displayInitialFixedBarState: the bar is empty
DisplayInitialFixedBarState(u) == [u EXCEPT !.shown = Absent]

\* a pauseAutoplay that leaves the refresh timer alone
PauseAutoplay_NoRearm(u, skipRedraw) ==
    LET stopped ==
            [u EXCEPT !.intervals = ClearInterval(@, u.autoplayId), !.autoplayId = Absent,
                      !.playing = FALSE, !.waiting = FALSE,
                      !.refreshDisabled = FALSE, !.locked = FALSE]
    IN  IF skipRedraw THEN stopped
        ELSE IF Len(stopped.views) > 0
        THEN UpdateFixedBarDisplay(stopped, Absent, "none", "cut")
        ELSE DisplayInitialFixedBarState(stopped)

\* pauseAutoplay(skipRedraw); CONFIG.REFRESH_INTERVAL_MS is positive
PauseAutoplay(u, skipRedraw) ==
    LET stopped ==
            [u EXCEPT !.intervals = ClearInterval(@, u.autoplayId), !.autoplayId = Absent,
                      !.playing = FALSE, !.waiting = FALSE,
                      !.refreshDisabled = FALSE, !.locked = FALSE]
        Redrawn(armed) ==
            IF skipRedraw THEN armed
            ELSE IF Len(armed.views) > 0
            THEN UpdateFixedBarDisplay(armed, Absent, "none", "cut")
            ELSE DisplayInitialFixedBarState(armed)
    IN  Once(IF ~Has(stopped.refreshId) /\ ~stopped.playing
             THEN [stopped EXCEPT !.refreshId = Some(NewId(stopped.intervals)),
                                  !.intervals = SetInterval(@, RefreshCallback)]
             ELSE stopped,
             Redrawn)

\* updateFixedShindoBar(eq), eq Absent for null; the points of an Event are
\* always a list.  The display area is emptied in both branches.
UpdateFixedShindoBar(u, eq, minScale, dict, surface, today) ==
    IF ~Has(eq)
    THEN LET cleared == DisplayInitialFixedBarState([u EXCEPT !.views = <<>>])
         IN  IF ~cleared.waiting THEN PauseAutoplay(cleared, FALSE) ELSE cleared
    ELSE [u EXCEPT !.views = FixedBarViews(Val(eq), minScale, dict, surface, today),
                   !.index = 0, !.shown = Absent]

\* PROCESSED_EARTHQUAKES.find(eq => eq.id === eventId)
FindEvent(processed, eventId) ==
    LET hits == {i \in 1..Len(processed) : processed[i].id = eventId}
    IN  IF hits = {} THEN Absent
        ELSE Some(processed[CHOOSE i \in hits : \A k \in hits : i <= k])

\* displayEarthquakes(processedEarthquakes): the first card is selected and
\* its details are shown
DisplayEarthquakes(u, processedEarthquakes, minScale, dict, surface, today) ==
    LET reset == [u EXCEPT !.selected = Absent]
    IN  IF processedEarthquakes = <<>>
        THEN UpdateFixedShindoBar(reset, Absent, minScale, dict, surface, today)
        ELSE UpdateFixedShindoBar([reset EXCEPT !.selected = Some(processedEarthquakes[1].id)],
                                  Some(processedEarthquakes[1]),
                                  minScale, dict, surface, today)

\* startAutoplay, the loops select holding totalLoops
StartAutoplay(u, totalLoops) ==
    IF u.playing \/ Len(u.views) <= 1 THEN u
    ELSE LET suspended ==
                 IF Has(u.refreshId)
                 THEN [u EXCEPT !.intervals = ClearInterval(@, u.refreshId),
                                !.refreshId = Absent]
                 ELSE u
             Shown(started) ==
                 [UpdateFixedBarDisplay(started, Some(StartView), "none", "cut")
                     EXCEPT !.index = -1,
                            !.autoplayId = Some(NewId(suspended.intervals)),
                            !.intervals = SetInterval(@, AutoplayCallback(totalLoops))]
         IN  Once([suspended EXCEPT
                      !.playing = TRUE, !.waiting = FALSE, !.loops = 0, !.index = 0,
                      !.refreshDisabled = TRUE, !.locked = TRUE],
                  Shown)

\* the callback of the playback timer, which holds totalLoops, while
\* #transition-effect holds `effect`
AutoplayStep(u, totalLoops, effect) ==
    IF ~u.playing THEN u
    ELSE IF u.index < Len(u.views) - 1
    THEN UpdateFixedBarDisplay([u EXCEPT !.index = @ + 1], Absent, "next", effect)
    ELSE LET counted == [u EXCEPT !.loops = @ + 1]
         IN  IF Has(totalLoops) /\ counted.loops >= Val(totalLoops)
             THEN [UpdateFixedBarDisplay(
                       [counted EXCEPT !.intervals = ClearInterval(@, counted.autoplayId),
                                       !.autoplayId = Absent],
                       Some(EndView), "none", effect)
                     EXCEPT !.timeouts.endAutoplay = @ + 1]
             ELSE UpdateFixedBarDisplay([counted EXCEPT !.index = 0], Absent, "next",
                                        effect)

\* eq.id of every Event
Ids(processed) == [i \in 1..Len(processed) |-> processed[i].id]

\* JSON.stringify(idsBefore) !== JSON.stringify(idsAfter) of the sorted id
\* lists: the lists differ as multisets
HasChanged(idsBefore, idsAfter) ==
    \/ Len(idsBefore) # Len(idsAfter)
    \/ \E x \in Elems(idsBefore) \cup Elems(idsAfter) :
           Cardinality({i \in 1..Len(idsBefore) : idsBefore[i] = x})
               # Cardinality({i \in 1..Len(idsAfter) : idsAfter[i] = x})

\* refreshData behind its await: the list is displayed, a changed list is
\* announced and playback is set to start in 3 s, the button is set to be
\* enabled in 1 s
AfterFetch(u, idsBefore, fetchedEarthquakes, minScale, dict, surface, today) ==
    LET Announced(displayed) ==
            IF /\ HasChanged(idsBefore, Ids(fetchedEarthquakes))
               /\ ~displayed.playing
               /\ fetchedEarthquakes # <<>>
            THEN [UpdateNavControls(
                      UpdateFixedShindoBar([displayed EXCEPT !.waiting = TRUE],
                                           Some(fetchedEarthquakes[1]),
                                           minScale, dict, surface, today))
                    EXCEPT !.timeouts.startAutoplay = @ + 1]
            ELSE displayed
    IN  [Once(DisplayEarthquakes(u, fetchedEarthquakes, minScale, dict, surface, today),
              Announced)
            EXCEPT !.timeouts.enableRefresh = @ + 1]

----------------------------------------------------------------------------
(* What the API may serve *)

\* earthquake.time is the timestamp the API gives (script.js:2813): it holds
\* no "_".  T1 and T2 fall into the same minute.
T1 == "2025-01-01T12:00:00+09:00"
T2 == "2025-01-01T12:00:30+09:00"
T3 == "2025-01-01T12:05:00+09:00"

Wajima == [pref |-> "Ishikawa", addr |-> "Wajima", scale |-> 60]
Suzu == [pref |-> "Ishikawa", addr |-> "Suzu", scale |-> 50]

\* two revisions of an intensity report for (time, name) that differ in every
\* other field
RevisionA(time, name) ==
    IntensityReport(Some(time), Hypocenter(Some(name), Some(50)), Some(60),
                    Some("None"), Absent, Issue(Some("E1"), Absent))
RevisionB(time, name) ==
    IntensityReport(Some(time), Hypocenter(Some(name), Some(-1)), Some(40),
                    Some("Warning"), Some(<<Wajima>>), Issue(Some("E2"), Absent))

\* intensity reports of three events, reports without time or epicenter, and
\* reports the threshold filter drops
KeyReports ==
    {RevisionA(T1, "Noto"), RevisionB(T1, "Noto"),
     RevisionA(T1, "Sanriku"), RevisionB(T1, "Sanriku"),
     RevisionA(T2, "Noto"), RevisionB(T2, "Noto"),
     IntensityReport(Absent, Hypocenter(Some("Noto"), Some(50)), Some(60),
                     Some("None"), Some(<<Suzu>>), Issue(Some("E1"), Absent)),
     IntensityReport(Some(T1), Absent, Some(60),
                     Some("None"), Some(<<Suzu>>), Issue(Some("E1"), Absent)),
     IntensityReport(Some(T1), Hypocenter(Some(""), Some(50)), Some(60),
                     Some("None"), Some(<<Suzu>>), Issue(Some("E1"), Absent)),
     IntensityReport(Some(T1), Hypocenter(Some("Noto"), Some(50)), Some(20),
                     Some("None"), Some(<<Suzu>>), Issue(Some("E1"), Absent)),
     IntensityReport(Some(T1), Hypocenter(Some("Noto"), Some(50)), Absent,
                     Some("None"), Some(<<Suzu>>), Issue(Some("E1"), Absent))}

\* a revision of the intensity report of one event
Revision(maxScale, status, points) ==
    IntensityReport(Some(T1), Hypocenter(Some("Noto"), Some(50)), Some(maxScale),
                    status, points, Issue(Some("E1"), Absent))

\* revisions of one event: every maxScale with every points property
\* (missing, empty, populated), and revisions with other tsunami statuses
\* and other points
MergeReports ==
    {Revision(maxScale, Some("None"), points) :
        maxScale \in {60, 70}, points \in {Absent, Some(<<>>), Some(<<Wajima>>)}}
    \cup
    {Revision(70, Some("Warning"), Absent),
     Revision(60, Some("Warning"), Some(<<Wajima>>)),
     Revision(60, Some("None"), Some(<<Suzu, Wajima>>)),
     Revision(70, Absent, Some(<<Suzu>>))}

Forecast(grade, name) == [grade |-> grade, area |-> [name |-> name]]
Station(name, height) == [name |-> name, height |-> height]
Area(stations) == [stations |-> stations]

\* intensity reports with the correlation id in issue.event_id, in the older
\* issue.eventid, and without an issue object; the first two are revisions
\* of one event
TsunamiQuakes ==
    {IntensityReport(Some(T1), Hypocenter(Some("Noto"), Some(76)), Some(60),
                     Some("Warning"), Absent, Issue(Some("E1"), Absent)),
     IntensityReport(Some(T1), Hypocenter(Some("Noto"), Some(76)), Some(60),
                     Some("None"), Some(<<Wajima>>), Issue(Absent, Some("E2"))),
     IntensityReport(Some(T3), Hypocenter(Some("Sanriku"), Some(61)), Some(40),
                     Some("Checking"), Absent, Absent)}

\* tsunami forecasts: two reports of correlation id E1 naming different
\* areas (one with a repeated area, an unknown grade and an unnamed area),
\* one of E2, one with an empty forecast list, one without the tsunami
\* object, one without ids and one without the issue object
TsunamiForecasts ==
    {ForecastReport(Issue(Some("E1"), Absent),
        Some([forecasts |-> Some(<<Forecast("Warning", Some("Yamagata"))>>)])),
     ForecastReport(Issue(Some("E1"), Absent),
        Some([forecasts |-> Some(<<Forecast("Advisory", Some("Kyoto")),
                                   Forecast("MajorWarning", Some("Noto")),
                                   Forecast("Advisory", Some("Kyoto")),
                                   Forecast("Unknown", Some("Fukui")),
                                   Forecast("Warning", Some(""))>>)])),
     ForecastReport(Issue(Absent, Some("E2")),
        Some([forecasts |-> Some(<<Forecast("Advisory", Some("Kyoto")),
                                   Forecast("Warning", Some("Yamagata"))>>)])),
     ForecastReport(Issue(Some("E1"), Absent), Some([forecasts |-> Some(<<>>)])),
     ForecastReport(Issue(Some("E1"), Absent), Absent),
     ForecastReport(Issue(Absent, Absent),
        Some([forecasts |-> Some(<<Forecast("Advisory", Some("Fukui"))>>)])),
     ForecastReport(Absent,
        Some([forecasts |-> Some(<<Forecast("Advisory", Some("Fukui"))>>)]))}

\* tsunami observations: two reports of E1 with different stations, a
\* cancelled one, one without areas, one without ids and one without the
\* issue object
TsunamiObservationReports ==
    {ObservationReport(Issue(Some("E1"), Absent), FALSE,
        Some(<<Area(Some(<<Station("Wajima-ko", 50), Station("Suzu-shi", 120)>>)),
               Area(Absent)>>)),
     ObservationReport(Issue(Some("E1"), Absent), FALSE,
        Some(<<Area(Some(<<Station("Sakata", 30)>>))>>)),
     ObservationReport(Issue(Some("E1"), Absent), TRUE,
        Some(<<Area(Some(<<Station("Toyama", 300)>>))>>)),
     ObservationReport(Issue(Absent, Some("E2")), FALSE, Absent),
     ObservationReport(Issue(Absent, Absent), FALSE,
        Some(<<Area(Some(<<Station("Kashiwazaki", 0)>>))>>)),
     ObservationReport(Absent, FALSE,
        Some(<<Area(Some(<<Station("Sado", 10)>>))>>))}

----------------------------------------------------------------------------
(* Training mode: the reports of dummyData, shortened to one report of    *)
(* every kind it holds: two early warnings, an intensity report that the  *)
(* list holds twice, its forecast and its observation, and an intensity   *)
(* report under the list threshold.                                       *)

DummyQuake ==
    IntensityReport(Some("2025-01-01T12:05:00+09:00"),
                    Hypocenter(Some("Tokachi-oki"), Some(64)), Some(50),
                    Some("Checking"),
                    Some(<<[pref |-> Hokkaido, addr |-> <<"kushi", "ro", Shi>>, scale |-> 50],
                           [pref |-> Hokkaido, addr |-> <<"obi", "hiro", Shi>>, scale |-> 40]>>),
                    Issue(Some("20250320100000"), Absent))

DummyData ==
    <<EewReport("dummy-eew-1", Some([hypocenter |-> Hypocenter(Some("Tokyo-wan"), Some(60))])),
      EewReport("dummy-eew-2", Some([hypocenter |-> Hypocenter(Some("Nankai"), Some(80))])),
      DummyQuake,
      ForecastReport(Issue(Some("20250320100000"), Absent),
         Some([forecasts |-> Some(<<Forecast("Advisory", Some("Hokkaido-taiheiyou"))>>)])),
      ObservationReport(Issue(Some("20250320100000"), Absent), FALSE,
         Some(<<Area(Some(<<[name |-> "Kushiro", height |-> 30]>>))>>)),
      DummyQuake,
      IntensityReport(Some("2025-01-01T12:00:00+09:00"),
                      Hypocenter(Some("Chiba"), Some(30)), Some(20), Some("None"),
                      Some(<<>>), Issue(Some("20250101120000"), Absent))>>

\* the Events of the training branch: every listed report becomes an Event,
\* there is no merge
DummyEvents(dummyData) ==
    LET tsunamiInfos == SelectSeq(dummyData, IsForecast)
        forecasts == TsunamiDetails(tsunamiInfos, Len(tsunamiInfos))
        observationInfos == SelectSeq(dummyData, IsObservation)
        observations == TsunamiObservations(observationInfos, Len(observationInfos))
        filteredEarthquakes == SelectSeq(dummyData, IsListed)
    IN  [tsunamiDetailsMap |-> forecasts.map,
         tsunamiObservationMap |-> observations.map,
         processed |->
            [i \in 1..Len(filteredEarthquakes) |->
                ProcessEarthquake(filteredEarthquakes[i], forecasts.map, observations.map)]]

----------------------------------------------------------------------------
(* refreshData and the handlers of the page *)

\* refreshData up to its await: nothing during playback; else the button
\* is disabled and fetchEarthquakeData runs up to its await, which hides
\* the banner in live mode and hands one early warning of dummyData,
\* chosen at random, to handleEew in training mode.  u and e are the state
\* the caller leaves.
RefreshData(u, e, dummy, onload) ==
    IF u.playing
    THEN SetUi(u) /\ SetEew(e) /\ UNCHANGED <<inFlight, errorShown>>
    ELSE /\ SetUi([u EXCEPT !.refreshDisabled = TRUE])
         /\ inFlight' = Append(inFlight,
                [idsBefore |-> Ids(PROCESSED_EARTHQUAKES), dummy |-> dummy,
                 onload |-> onload])
         /\ IF dummy
            THEN /\ \E randomEew \in Elems(SelectSeq(DummyData, IsEew)) :
                        SetEew(HandleEew(e, randomEew))
                 /\ UNCHANGED errorShown
            ELSE /\ errorShown' = FALSE
                 /\ SetEew(e)

\* what refreshData leaves alone up to its await
RefreshFrame ==
    UNCHANGED <<upstream, data, tsunamiDetailsMap, tsunamiObservationMap, earthquakes,
                PROCESSED_EARTHQUAKES, results, KANA_DICT, resolved,
                manualKanaDictionary, kanaCall, contentLine1>>

\* window.onload behind buildKanaDictionary: the override table is loaded,
\* the listeners are set up and the first refreshData is called
OnLoad ==
    /\ loaded = "start"
    /\ loaded' = "fetching"
    /\ MANUAL_KANA_DICT' = LoadManualKanaDict(MANUAL_KANA_DICT, manualKanaDictionary)
    /\ RefreshData(Ui, Eew, USE_DUMMY_DATA, TRUE)
    /\ RefreshFrame
    /\ UNCHANGED <<loopPlaybackMinScale, USE_DUMMY_DATA>>

\* the refresh timer `id` fires
RefreshTick(id) ==
    /\ id \in DOMAIN intervals
    /\ intervals[id] = RefreshCallback
    /\ ~isAutoplaying
    /\ Len(inFlight) < MaxInFlight
    /\ RefreshData(Ui, Eew, USE_DUMMY_DATA, FALSE)
    /\ RefreshFrame
    /\ UNCHANGED <<loopPlaybackMinScale, USE_DUMMY_DATA, loaded, MANUAL_KANA_DICT>>

\* a click on #refresh-button
ClickRefresh ==
    /\ loaded # "start"
    /\ ~refreshButtonDisabled
    /\ ~isAutoplaying
    /\ Len(inFlight) < MaxInFlight
    /\ RefreshData(Ui, Eew, USE_DUMMY_DATA, FALSE)
    /\ RefreshFrame
    /\ UNCHANGED <<loopPlaybackMinScale, USE_DUMMY_DATA, loaded, MANUAL_KANA_DICT>>

\* a click on the training button
ToggleDummyData ==
    /\ loaded # "start"
    /\ ~controlsLocked
    /\ Len(inFlight) < MaxInFlight
    /\ USE_DUMMY_DATA' = ~USE_DUMMY_DATA
    /\ RefreshData(Ui, Eew, ~USE_DUMMY_DATA, FALSE)
    /\ RefreshFrame
    /\ UNCHANGED <<loopPlaybackMinScale, loaded, MANUAL_KANA_DICT>>

\* the save button of the settings: the playback threshold and the sound
\* setting are taken from the form, the list threshold is left as it is;
\* the bar of the selected Event is rebuilt and refreshData is called
SaveSettings(minScale, sound, today) ==
    /\ loaded # "start"
    /\ isAutoplaying \/ Len(inFlight) < MaxInFlight
    /\ loopPlaybackMinScale' = minScale
    /\ LET eqData == IF Has(selectedCardId)
                     THEN FindEvent(PROCESSED_EARTHQUAKES, Val(selectedCardId))
                     ELSE Absent
           rebuilt == IF Has(eqData)
                      THEN UpdateFixedShindoBar(Ui, eqData, minScale, KANA_DICT,
                                                contentLine1, today)
                      ELSE Ui
       IN  RefreshData(rebuilt, [Eew EXCEPT !.playSound = sound], USE_DUMMY_DATA, FALSE)
    /\ RefreshFrame
    /\ UNCHANGED <<USE_DUMMY_DATA, loaded, MANUAL_KANA_DICT>>

\* what the handlers of the bar and of playback leave alone
BarFrame ==
    UNCHANGED <<upstream, pollVars, resolverVars, alertVars, contentLine1,
                loopPlaybackMinScale, USE_DUMMY_DATA, inFlight, loaded>>

\* formatCurrentTime(new Date()) behind a refresh: the text of the clock,
\* which has moved on since the text `last` was written.  The model keeps
\* of the clock only what tells the text of a refresh from the one before
FormatCurrentTime(last) == IF last = Some(1) THEN 2 ELSE 1

\* the end of refreshData: LAST_FETCH_TIME is written unless #error-message
\* is shown
UpdateFetchTime(u, isErrorDisplayed) ==
    IF ~isErrorDisplayed
    THEN [u EXCEPT !.fetchTime = Some(FormatCurrentTime(u.fetchTime))]
    ELSE u

\* the table and the item that displayEarthquakeDetails(eq) leaves, eq
\* Absent for undefined
Details(eq) ==
    IF Has(eq)
    THEN DisplayEarthquakeDetails(MANUAL_KANA_DICT, manualKanaDictionary, Val(eq), KANA_DICT)
    ELSE [manual |-> MANUAL_KANA_DICT, item |-> manualKanaDictionary, thrown |-> FALSE]

\* refreshData behind its await, for the call that is k-th in flight: the
\* fetch settles, the list is displayed, and window.onload arms the
\* refresh timer behind its first refreshData.  When the details of the
\* first Event throw, the first card is selected and refreshData, and
\* window.onload with it, end there.
RefreshComplete(k, settled, today) ==
    /\ k \in 1..Len(inFlight)
    /\ timeouts.enableRefresh < MaxPending
    /\ IF inFlight[k].dummy
       THEN LET result == DummyEvents(DummyData)
            IN  /\ tsunamiDetailsMap' = result.tsunamiDetailsMap
                /\ tsunamiObservationMap' = result.tsunamiObservationMap
                /\ earthquakes' = result.processed
                /\ PROCESSED_EARTHQUAKES' = result.processed
                /\ UNCHANGED <<data, results, errorShown, eewQueue, alertVars>>
       ELSE FetchSettles(settled, errorShown)
    /\ \E shown \in {Details(IF earthquakes' # <<>> THEN Some(earthquakes'[1])
                               ELSE Absent)} :
        /\ MANUAL_KANA_DICT' = shown.manual
        /\ manualKanaDictionary' = shown.item
        /\ IF shown.thrown
           THEN /\ SetUi([Ui EXCEPT !.selected = Some(earthquakes'[1].id)])
                /\ loaded' = IF inFlight[k].onload THEN "failed" ELSE loaded
           ELSE LET left == UpdateFetchTime(
                                AfterFetch(Ui, inFlight[k].idsBefore, earthquakes',
                                           loopPlaybackMinScale, KANA_DICT, contentLine1,
                                           today),
                                errorShown')
                IN  IF inFlight[k].onload
                    THEN /\ SetUi([left EXCEPT !.refreshId = Some(NewId(left.intervals)),
                                               !.intervals = SetInterval(@, RefreshCallback)])
                         /\ loaded' = "done"
                    ELSE SetUi(left) /\ UNCHANGED loaded
    /\ timeouts'.startAutoplay <= MaxPending
    /\ inFlight' = SubSeq(inFlight, 1, k - 1) \o SubSeq(inFlight, k + 1, Len(inFlight))
    /\ UNCHANGED <<upstream, KANA_DICT, resolved, kanaCall, contentLine1,
                   loopPlaybackMinScale, USE_DUMMY_DATA>>

\* a click on the i-th card of the list
CardClick(i, today) ==
    /\ ~controlsLocked
    /\ i \in 1..Len(earthquakes)
    /\ \E shown \in {Details(FindEvent(PROCESSED_EARTHQUAKES, earthquakes[i].id))} :
        /\ MANUAL_KANA_DICT' = shown.manual
        /\ manualKanaDictionary' = shown.item
        /\ IF shown.thrown
           THEN SetUi([Ui EXCEPT !.selected = Some(earthquakes[i].id)])
           ELSE SetUi(UpdateFixedShindoBar(
                        [Ui EXCEPT !.selected = Some(earthquakes[i].id)],
                        FindEvent(PROCESSED_EARTHQUAKES, earthquakes[i].id),
                        loopPlaybackMinScale, KANA_DICT, contentLine1, today))
    /\ UNCHANGED <<upstream, pollVars, KANA_DICT, resolved, kanaCall, alertVars,
                   contentLine1, loopPlaybackMinScale, USE_DUMMY_DATA, inFlight, loaded>>

\* a click on #autoplay-toggle, which is shown when the bar has more than
\* one view; the loops select holds totalLoops
TogglePlay(totalLoops) ==
    /\ loaded # "start"
    /\ Len(FIXED_BAR_VIEWS) > 1
    /\ SetUi(IF isAutoplaying THEN PauseAutoplay(Ui, TRUE)
             ELSE StartAutoplay(Ui, totalLoops))
    /\ BarFrame

\* a click on #reset-display-button
ResetClick ==
    /\ loaded # "start"
    /\ Len(FIXED_BAR_VIEWS) > 1
    /\ SetUi(UpdateNavControls([PauseAutoplay(Ui, TRUE) EXCEPT !.shown = Absent,
                                                               !.index = 0]))
    /\ BarFrame

\* the listener of #shindo-prev
PrevHandler(u, effect) ==
    LET Back(paused) ==
            IF Threw(paused) THEN paused
            ELSE UpdateFixedBarDisplay([paused EXCEPT !.index = @ - 1], Absent, "prev",
                                       effect)
    IN  IF u.index > 0 THEN Once(PauseAutoplay(u, FALSE), Back) ELSE u

\* the listener of #shindo-next
NextHandler(u, effect) ==
    LET Forward(paused) ==
            IF Threw(paused) THEN paused
            ELSE UpdateFixedBarDisplay([paused EXCEPT !.index = @ + 1], Absent, "next",
                                       effect)
    IN  IF u.index < Len(u.views) - 1 THEN Once(PauseAutoplay(u, FALSE), Forward) ELSE u

\* a click on #shindo-prev, which is shown when the bar has more than one
\* view, while #transition-effect holds `effect`
PrevClick(effect) ==
    /\ loaded # "start"
    /\ Len(FIXED_BAR_VIEWS) > 1
    /\ ~prevDisabled
    /\ effect = "slide" => Len(slideTimeouts) < MaxPending
    /\ SetUi(PrevHandler(Ui, effect))
    /\ BarFrame

\* a click on #shindo-next, which is shown when the bar has more than one
\* view, while #transition-effect holds `effect`
NextClick(effect) ==
    /\ loaded # "start"
    /\ Len(FIXED_BAR_VIEWS) > 1
    /\ ~nextDisabled
    /\ effect = "slide" => Len(slideTimeouts) < MaxPending
    /\ SetUi(NextHandler(Ui, effect))
    /\ BarFrame

\* the playback timer `id` fires while #transition-effect holds `effect`
AutoplayTick(id, effect) ==
    /\ id \in DOMAIN intervals
    /\ intervals[id].callback = "autoplay"
    /\ isAutoplaying
    /\ autoplayLoopCounter < MaxLoops
    /\ timeouts.endAutoplay < MaxPending
    /\ effect = "slide" => Len(slideTimeouts) < MaxPending
    /\ SetUi(AutoplayStep(Ui, intervals[id].totalLoops, effect))
    /\ BarFrame

\* the timeout of the slide transition is due: renderContent(currentView)
SlideTimeout ==
    /\ slideTimeouts # <<>>
    /\ SetUi([Ui EXCEPT !.shown = Some(Head(slideTimeouts)), !.slides = Tail(@)])
    /\ BarFrame

\* setTimeout(startAutoplay, 3000) is due; the loops select holds totalLoops
StartAutoplayTimeout(totalLoops) ==
    /\ timeouts.startAutoplay > 0
    /\ SetUi(StartAutoplay([Ui EXCEPT !.timeouts.startAutoplay = @ - 1], totalLoops))
    /\ BarFrame

\* the timeout behind the last loop is due: line 1 is emptied and
\* pauseAutoplay(true) is called
EndAutoplayTimeout ==
    /\ timeouts.endAutoplay > 0
    /\ SetUi(PauseAutoplay([Ui EXCEPT !.timeouts.endAutoplay = @ - 1,
                                      !.shown = Absent], TRUE))
    /\ BarFrame

\* the timeout that enables #refresh-button is due
EnableRefreshTimeout ==
    /\ timeouts.enableRefresh > 0
    /\ SetUi([Ui EXCEPT !.timeouts.enableRefresh = @ - 1, !.refreshDisabled = FALSE])
    /\ BarFrame

\* what the handlers of the override table leave alone
KanaFrame ==
    UNCHANGED <<upstream, pollVars, KANA_DICT, resolved, uiVars, alertVars>>

\* a call of getKana(kanji), as the script of the broadcast makes it for
\* the epicenter and the details make it for a city
Lookup(kanji) ==
    /\ loaded # "start"
    /\ kanaCall' = Some([kanji |-> kanji,
                         returned |-> GetKana(MANUAL_KANA_DICT, KANA_DICT, kanji)])
    /\ UNCHANGED <<MANUAL_KANA_DICT, manualKanaDictionary>>
    /\ KanaFrame

\* a click on #add-kana-button with key and value in the inputs; the
\* assignment throws on a table that is null
AddKana(key, value) ==
    /\ loaded # "start"
    /\ key # <<>> /\ value # <<>>
    /\ MANUAL_KANA_DICT' =
          IF MANUAL_KANA_DICT.kind = "null" THEN MANUAL_KANA_DICT
          ELSE Table(DictSet(MANUAL_KANA_DICT.entries, key, value))
    /\ UNCHANGED <<manualKanaDictionary, kanaCall>>
    /\ KanaFrame

\* a click on the delete button of the entry `key` of the list
DeleteKana(key) ==
    /\ loaded # "start"
    /\ MANUAL_KANA_DICT.kind = "object"
    /\ HasOwnProperty(MANUAL_KANA_DICT, key)
    /\ MANUAL_KANA_DICT' =
          Table(SelectSeq(MANUAL_KANA_DICT.entries, LAMBDA entry : entry.name # key))
    /\ UNCHANGED <<manualKanaDictionary, kanaCall>>
    /\ KanaFrame

\* a click on #kana-db-modal-close: the table is loaded again
CloseKanaModal ==
    /\ loaded # "start"
    /\ MANUAL_KANA_DICT' = LoadManualKanaDict(MANUAL_KANA_DICT, manualKanaDictionary)
    /\ UNCHANGED <<manualKanaDictionary, kanaCall>>
    /\ KanaFrame

\* a click on #kana-db-modal-save: the table is saved and the details of
\* the selected Event are displayed again
SaveKanaModal(today) ==
    /\ loaded # "start"
    /\ LET eqData == IF Has(selectedCardId)
                     THEN FindEvent(PROCESSED_EARTHQUAKES, Val(selectedCardId))
                     ELSE Absent
       IN  \E shown \in {IF Has(eqData)
                         THEN DisplayEarthquakeDetails(
                                  MANUAL_KANA_DICT, Some(JsonStringify(MANUAL_KANA_DICT)),
                                  Val(eqData), KANA_DICT)
                         ELSE [manual |-> MANUAL_KANA_DICT,
                               item |-> Some(JsonStringify(MANUAL_KANA_DICT)),
                               thrown |-> FALSE]} :
            /\ MANUAL_KANA_DICT' = shown.manual
            /\ manualKanaDictionary' = shown.item
            /\ IF Has(eqData) /\ ~shown.thrown
               THEN SetUi(UpdateFixedShindoBar(Ui, eqData, loopPlaybackMinScale,
                                               KANA_DICT, contentLine1, today))
               ELSE SetUi(Ui)
    /\ UNCHANGED <<upstream, pollVars, KANA_DICT, resolved, kanaCall, alertVars,
                   contentLine1, loopPlaybackMinScale, USE_DUMMY_DATA, inFlight, loaded>>

\* importKanaDictionaryFromFile: the text of the file is taken when it
\* parses to an object of strings
ImportKana(text) ==
    /\ loaded # "start"
    /\ IF text.valid /\ text.value.kind = "object"
       THEN /\ MANUAL_KANA_DICT' = text.value
            /\ manualKanaDictionary' = Some(JsonStringify(text.value))
       ELSE UNCHANGED <<MANUAL_KANA_DICT, manualKanaDictionary>>
    /\ UNCHANGED kanaCall
    /\ KanaFrame

\* what the timers of the alert leave alone
AlertFrame ==
    UNCHANGED <<upstream, data, tsunamiDetailsMap, tsunamiObservationMap, earthquakes,
                PROCESSED_EARTHQUAKES, errorShown, results, resolverVars, uiVars>>

\* the rotation timer of the alert fires
EewRotationTick ==
    /\ Has(eewDisplayIntervalId)
    /\ Val(eewDisplayIntervalId) \in eewTimers
    /\ SetEew(EewRotation(Eew))
    /\ AlertFrame

\* the timeout that clears the alert is due
EewClearTimeout ==
    /\ Has(eewClearTimeoutId)
    /\ Val(eewClearTimeoutId) \in eewTimers
    /\ SetEew(StopEewDisplayCycle(Eew))
    /\ AlertFrame

\* the alert sound has played twice
SoundEnded ==
    /\ eewAudioPlaying
    /\ SetEew([Eew EXCEPT !.playing = FALSE])
    /\ AlertFrame

----------------------------------------------------------------------------
(* Specifications *)

\* polls of intensity reports of several events
Next ==
    \/ \E report \in KeyReports : Publish(report)
    \/ FetchEarthquakeData(AllOk)

Spec == Init /\ [][Next]_vars

\* polls of the revisions of one event
NextMerge ==
    \/ \E report \in MergeReports : Publish(report)
    \/ FetchEarthquakeData(AllOk)

SpecMerge == Init /\ [][NextMerge]_vars

\* polls of intensity reports with tsunami forecasts and observations
NextTsunami ==
    \/ \E report \in TsunamiQuakes : Publish(report)
    \/ \E report \in TsunamiForecasts : Publish(report)
    \/ \E report \in TsunamiObservationReports : Publish(report)
    \/ FetchEarthquakeData(AllOk)

SpecTsunami == Init /\ [][NextTsunami]_vars

\* one report of each kind, all of correlation id E1
FetchReports ==
    {IntensityReport(Some(T1), Hypocenter(Some("Noto"), Some(76)), Some(60),
                     Some("Warning"), Some(<<Wajima>>), Issue(Some("E1"), Absent)),
     ForecastReport(Issue(Some("E1"), Absent),
        Some([forecasts |-> Some(<<Forecast("Warning", Some("Yamagata"))>>)])),
     ObservationReport(Issue(Some("E1"), Absent), FALSE,
        Some(<<Area(Some(<<Station("Wajima-ko", 50)>>))>>)),
     EewReport("eew-1", Some([hypocenter |-> Hypocenter(Some("Noto"), Some(76))]))}

\* polls in which every subset of the four fetches may fail, by rejection or
\* by a response that is not ok; the API serves at most one report per kind
NextFetch ==
    \/ \E report \in FetchReports :
            upstream[report.code] = <<>> /\ Publish(report)
    \/ \E settled \in [{551, 552, 556, 554} -> Outcomes] :
            FetchEarthquakeData(settled)

SpecFetch == Init /\ [][NextFetch]_vars

\* areas that area.json may list
Nanporo == <<"nan", "poro", Cho>>
Oomachi == <<"oo", Cho, Cho>>
Miyagino == <<"miya", "gi", "no", Ku>>
Sendai == <<"sen", "dai", Shi>>
Saga == <<"sa", "ga", Ken>>
Tochigi == <<"tochi", "gi", Ken>>
TochigiShi == <<"tochi", "gi", Shi>>
Miyakejima == <<"mi", "yake", "jima">>

JmaAreas ==
    {[name |-> Nanporo, kana |-> <<"NAN", "PORO", "CHOU">>],
     [name |-> Oomachi, kana |-> <<"OO", "MACHI", "CHOU">>],
     [name |-> Miyagino, kana |-> <<"MIYA", "GI", "NO", "KU">>],
     [name |-> Sendai, kana |-> <<"SEN", "DAI", "SHI">>],
     [name |-> Sendai \o Miyagino, kana |-> <<"SEN", "DAI", "SHI", "MIYA", "GI", "NO", "KU">>],
     [name |-> TochigiShi, kana |-> <<"TOCHI", "GI", "SHI">>],
     [name |-> <<"tochi", "gi">>, kana |-> <<"TOCHI", "GI">>],
     [name |-> <<"kushi", "ro", Shi>>, kana |-> <<>>]}

\* the lists of at most MaxAreas areas
AreaLists ==
    UNION {[1..n -> JmaAreas] : n \in 0..MaxAreas}

\* observation points: towns and villages of a county, wards of a city with
\* and without the prefecture in front, a city, and points without address
\* or prefecture
Point(pref, addr) == [pref |-> pref, addr |-> addr, scale |-> 40]

ResolverPoints ==
    {Point(Hokkaido, Hokkaido \o <<"sora", "chi", Gun>> \o Nanporo),
     Point(Saga, Saga \o <<"ki", "shima", Gun>> \o Oomachi),
     Point(Fukushima, Fukushima \o <<"higashi", "shira", "kawa", Gun, "same", "gawa", Son>>),
     Point(Miyagi, Sendai \o Miyagino),
     Point(Miyagi, Miyagi \o Sendai \o Miyagino),
     Point(Tokyo, Tokyo \o <<"hachi", "ou", "ji", Shi, "oo", "yoko", Cho>>),
     Point(Hokkaido, <<"kushi", "ro", Shi, Space, "saiwai", Cho>>),
     Point(Tochigi, TochigiShi \o <<"iri", "fune", Cho>>),
     Point(Tochigi, Tochigi \o TochigiShi \o <<"iri", "fune", Cho>>),
     Point(Tokyo, Miyakejima),
     Point(Tokyo, Tokyo \o Miyakejima),
     Point(Miyagi, <<>>),
     Point(<<>>, Sendai),
     Point(<<>>, <<>>)}

\* the resolver on the points, under every dictionary of the areas
NextResolver ==
    \/ \E areas \in AreaLists : BuildKanaDictionary(areas)
    \/ \E point \in ResolverPoints : ResolvePoint(point)

SpecResolver == Init /\ [][NextResolver]_vars

\* an intensity report whose bar has more than one view
PlayReports ==
    {IntensityReport(Some(T1), Hypocenter(Some("Noto"), Absent), Some(40), Absent,
                     Some(<<[pref |-> Hokkaido, addr |-> <<"kushi", "ro", Shi>>,
                             scale |-> 40]>>),
                     Issue(Some("E1"), Absent))}

\* the values of the loops select that are played: one loop and Infinity
LoopsOptions == {Some(1), Absent}

\* the page from its load on: refreshes by the timer, the button and the
\* settings, playback and the clicks on the bar.  The settings are saved
\* with the playback threshold at 50; the loops select holds 1 when the
\* timeout that starts playback is due
NextPlay ==
    \/ \E report \in PlayReports : upstream[report.code] = <<>> /\ Publish(report)
    \/ OnLoad
    \/ \E id \in DOMAIN intervals : RefreshTick(id)
    \/ ClickRefresh
    \/ SaveSettings(50, TRUE, TRUE)
    \/ \E k \in 1..Len(inFlight) : RefreshComplete(k, AllOk, TRUE)
    \/ \E i \in 1..Len(earthquakes) : CardClick(i, TRUE)
    \/ \E totalLoops \in LoopsOptions : TogglePlay(totalLoops)
    \/ ResetClick
    \/ PrevClick("cut")
    \/ NextClick("cut")
    \/ \E id \in DOMAIN intervals : AutoplayTick(id, "cut")
    \/ StartAutoplayTimeout(Some(1))
    \/ EndAutoplayTimeout
    \/ EnableRefreshTimeout

SpecPlay == Init /\ [][NextPlay]_vars

\* one event whose bar has the pages of all three paginators: MaxItems
\* cities in one intensity group, MaxItems forecast areas of one grade and
\* MaxItems stations, the lowest first
PagesUpstream ==
    [c \in {551, 552, 556, 554} |->
        CASE c = 551 ->
               <<IntensityReport(Some(T1), Hypocenter(Some("Noto"), Absent), Some(40),
                    Absent,
                    Some([i \in 1..MaxItems |->
                            [pref |-> Miyagi, addr |-> <<"city" \o ToString(i), Shi>>,
                             scale |-> 40]]),
                    Issue(Some("E1"), Absent))>>
          [] c = 552 ->
               <<ForecastReport(Issue(Some("E1"), Absent),
                    Some([forecasts |->
                            Some([i \in 1..MaxItems |->
                                    Forecast("Warning", Some("area" \o ToString(i)))])]))>>
          [] c = 556 ->
               <<ObservationReport(Issue(Some("E1"), Absent), FALSE,
                    Some(<<Area(Some([i \in 1..MaxItems |->
                                        Station("port" \o ToString(i), 10 * i)]))>>))>>
          [] OTHER -> <<>>]

\* the items of the three paginators for PagesUpstream, in page order
PagesItems ==
    [cities |-> [i \in 1..MaxItems |-> <<"city" \o ToString(i), Shi>>],
     areas |-> [i \in 1..MaxItems |-> <<"area" \o ToString(i)>>],
     stations |-> [i \in 1..MaxItems |->
                    StationText(Station("port" \o ToString(MaxItems + 1 - i),
                                        10 * (MaxItems + 1 - i)))]]

\* the html of every run of n consecutive items, as the surface sees it
Runs(items, n) == {<<items[i], n>> : i \in 1..(Len(items) + 1 - n)}

\* the surfaces for the items of one paginator: any set of the runs of two
\* and more items fits, monotone or not; the single items fit all or none
Surfaces(items) ==
    {several \cup single :
        several \in SUBSET UNION {Runs(items, n) : n \in 2..Len(items)},
        single \in {{}, Runs(items, 1)}}

\* the surface is one for the items of one of the paginators; nothing
\* else fits
InitPages ==
    /\ upstream = PagesUpstream
    /\ \E family \in DOMAIN PagesItems : contentLine1 \in Surfaces(PagesItems[family])
    /\ manualKanaDictionary = Absent
    /\ InitPage

\* the page loads, the Event is selected, the settings are saved with the
\* playback threshold at 30 or 50 and playback starts
NextPages ==
    \/ OnLoad
    \/ \E k \in 1..Len(inFlight) : RefreshComplete(k, AllOk, TRUE)
    \/ \E i \in 1..Len(earthquakes) : CardClick(i, TRUE)
    \/ \E minScale \in {30, 50} : inFlight = <<>> /\ SaveSettings(minScale, TRUE, TRUE)
    \/ StartAutoplayTimeout(Some(1))
    \/ EnableRefreshTimeout

SpecPages == InitPages /\ [][NextPages]_vars

\* early warnings of two ids, and one without the earthquake object
EewReports ==
    {EewReport("eew-1", Some([hypocenter |-> Hypocenter(Some("Noto"), Some(76))])),
     EewReport("eew-2", Some([hypocenter |-> Hypocenter(Some("Sado"), Some(60))])),
     EewReport("eew-3", Absent)}

\* polls that deliver the newest early warning, and the timers of the alert
NextAlert ==
    \/ \E report \in EewReports : Publish(report)
    \/ FetchEarthquakeData(AllOk)
    \/ EewRotationTick
    \/ EewClearTimeout
    \/ SoundEnded

SpecAlert == Init /\ [][NextAlert]_vars

\* the override table: what localStorage may hold when the page loads, the
\* areas of area.json, the keys that are looked up and the files that are
\* imported
MiyagiSendai == Miyagi \o <<Underscore>> \o Sendai
TokyoMiyakejima ==
    Tokyo \o <<Underscore>> \o Miyakejima \o <<OpenParen, "tsubo", "ta", CloseParen>>

KanaAreaLists ==
    {<<>>,
     <<[name |-> Sendai, kana |-> <<"SEN", "DAI", "SHI">>],
       [name |-> Miyakejima, kana |-> <<"MI", "YAKE", "JIMA">>]>>}

StoredItems ==
    {Absent, Some(InvalidJson), Some(JsonStringify(NullValue)),
     Some(JsonStringify(Table(<<[name |-> MiyagiSendai, kana |-> <<>>]>>)))}

ImportedTexts ==
    {InvalidJson, JsonStringify(NullValue),
     JsonStringify(Table(<<[name |-> TokyoMiyakejima, kana |-> <<"mi_", "yake_">>]>>))}

KanaKeys == {MiyagiSendai, TokyoMiyakejima, <<>>}

InitKana ==
    /\ upstream = [c \in {551, 552, 556, 554} |-> <<>>]
    /\ contentLine1 = {}
    /\ manualKanaDictionary \in StoredItems
    /\ InitPage

NextKana ==
    \/ \E areas \in KanaAreaLists : BuildKanaDictionary(areas)
    \/ OnLoad
    \/ \E report \in PlayReports : upstream[report.code] = <<>> /\ Publish(report)
    \/ \E k \in 1..Len(inFlight) : RefreshComplete(k, AllOk, TRUE)
    \/ \E i \in 1..Len(earthquakes) : CardClick(i, TRUE)
    \/ \E kanji \in KanaKeys : Lookup(kanji)
    \/ AddKana(MiyagiSendai, <<"sen_", "dai_">>)
    \/ \E key \in KanaKeys : DeleteKana(key)
    \/ CloseKanaModal
    \/ SaveKanaModal(TRUE)
    \/ \E text \in ImportedTexts : ImportKana(text)

SpecKana == InitKana /\ [][NextKana]_vars

\* refreshes in which the four fetches are all ok, all rejected, or all
\* answered with a response that is not ok
AllRejected == [c \in {551, 552, 556, 554} |-> "rejected"]
AllHttpError == [c \in {551, 552, 556, 554} |-> "http_error"]

NextOutage ==
    \/ OnLoad
    \/ \E report \in PlayReports : upstream[report.code] = <<>> /\ Publish(report)
    \/ \E k \in 1..Len(inFlight), settled \in {AllOk, AllRejected, AllHttpError} :
            RefreshComplete(k, settled, TRUE)
    \/ \E id \in DOMAIN intervals : RefreshTick(id)
    \/ EnableRefreshTimeout
    \/ StartAutoplayTimeout(Some(1))

SpecOutage == Init /\ [][NextOutage]_vars

\* the API serves one intensity report from the start
BarUpstream ==
    [c \in {551, 552, 556, 554} |->
        IF c = 551 THEN <<CHOOSE report \in PlayReports : TRUE>> ELSE <<>>]

InitBar ==
    /\ upstream = BarUpstream
    /\ contentLine1 = {}
    /\ manualKanaDictionary = Absent
    /\ InitPage

\* the bar from the load of the page on: refreshes that succeed or fail,
\* settings saves, one refresh at a time, playback of one loop or without
\* end, the clicks on the bar and the timers; #transition-effect holds 'cut'
NextBar ==
    \/ OnLoad
    \/ \E id \in DOMAIN intervals : inFlight = <<>> /\ RefreshTick(id)
    \/ inFlight = <<>> /\ SaveSettings(30, TRUE, TRUE)
    \/ \E k \in 1..Len(inFlight), settled \in {AllOk, AllRejected} :
            RefreshComplete(k, settled, TRUE)
    \/ \E totalLoops \in LoopsOptions : TogglePlay(totalLoops)
    \/ ResetClick
    \/ PrevClick("cut")
    \/ NextClick("cut")
    \/ \E id \in DOMAIN intervals : AutoplayTick(id, "cut")
    \/ StartAutoplayTimeout(Some(1))
    \/ EndAutoplayTimeout
    \/ EnableRefreshTimeout

SpecBar == InitBar /\ [][NextBar]_vars

\* the bar of one Event behind the first refresh: playback of one loop or
\* without end, the clicks on the bar and the page tick with either
\* transition effect, and the timeouts
NextSlide ==
    \/ OnLoad
    \/ \E k \in 1..Len(inFlight) : RefreshComplete(k, AllOk, TRUE)
    \/ \E totalLoops \in LoopsOptions : TogglePlay(totalLoops)
    \/ ResetClick
    \/ \E effect \in Effects : PrevClick(effect)
    \/ \E effect \in Effects : NextClick(effect)
    \/ \E id \in DOMAIN intervals, effect \in Effects : AutoplayTick(id, effect)
    \/ SlideTimeout
    \/ StartAutoplayTimeout(Some(1))
    \/ EndAutoplayTimeout
    \/ EnableRefreshTimeout

SpecSlide == InitBar /\ [][NextSlide]_vars

\* the page without a user: the load, the refreshes of the timer, the
\* playback that a changed list starts, with the loops select at 1 to
\* MaxLoops, and the timeouts; #transition-effect holds 'cut'
NextLoop ==
    \/ OnLoad
    \/ \E id \in DOMAIN intervals : RefreshTick(id)
    \/ \E k \in 1..Len(inFlight) : RefreshComplete(k, AllOk, TRUE)
    \/ \E loops \in 1..MaxLoops : StartAutoplayTimeout(Some(loops))
    \/ \E id \in DOMAIN intervals : AutoplayTick(id, "cut")
    \/ EndAutoplayTimeout
    \/ EnableRefreshTimeout

SpecLoop == InitBar /\ [][NextLoop]_vars

\* intensity reports of two Events
NewsReports ==
    PlayReports \cup
    {IntensityReport(Some(T3), Hypocenter(Some("Sanriku"), Absent), Some(40), Absent,
                     Some(<<[pref |-> Hokkaido, addr |-> <<"obi", "hiro", Shi>>,
                             scale |-> 40]>>),
                     Issue(Some("E2"), Absent))}

\* the list of the Events over time: reports come and leave the history,
\* the page is loaded and refreshed by its timer, one refresh at a time,
\* and the playback that a changed list starts runs its one loop
NextNews ==
    \/ \E report \in NewsReports :
            /\ \A i \in 1..Len(upstream[551]) : upstream[551][i] # report
            /\ Publish(report)
    \/ Expire(551)
    \/ OnLoad
    \/ \E id \in DOMAIN intervals : inFlight = <<>> /\ RefreshTick(id)
    \/ \E k \in 1..Len(inFlight) : RefreshComplete(k, AllOk, TRUE)
    \/ StartAutoplayTimeout(Some(1))
    \/ \E id \in DOMAIN intervals : AutoplayTick(id, "cut")
    \/ EndAutoplayTimeout
    \/ EnableRefreshTimeout

SpecNews == Init /\ [][NextNews]_vars

\* the page with its training button: the list is fetched from the API or
\* taken from dummyData, one refresh at a time, and the alert of the early
\* warning that training mode hands to handleEew runs out
NextTraining ==
    \/ \E report \in PlayReports : upstream[report.code] = <<>> /\ Publish(report)
    \/ OnLoad
    \/ inFlight = <<>> /\ ToggleDummyData
    \/ \E id \in DOMAIN intervals : inFlight = <<>> /\ RefreshTick(id)
    \/ \E k \in 1..Len(inFlight) : RefreshComplete(k, AllOk, TRUE)
    \/ EnableRefreshTimeout
    \/ StartAutoplayTimeout(Some(1))
    \/ EewClearTimeout
    \/ SoundEnded

SpecTraining == Init /\ [][NextTraining]_vars


\* revisions of one event with and without a valid magnitude, each with and
\* without points
MagnitudeReports ==
    {IntensityReport(Some(T1), Hypocenter(Some("Noto"), magnitude), Some(60),
                     Some("None"), points, Issue(Some("E1"), Absent)) :
        magnitude \in {Some(50), Some(-1), Absent},
        points \in {Absent, Some(<<Wajima>>)}}

\* polls of the revisions of one event that differ in magnitude and points
NextMagnitude ==
    \/ \E report \in MagnitudeReports : Publish(report)
    \/ FetchEarthquakeData(AllOk)

SpecMagnitude == Init /\ [][NextMagnitude]_vars


\* observation points of two cities, two of them in the same city, at two
\* intensities
GroupPoints ==
    {[pref |-> Hokkaido, addr |-> <<"kushi", "ro", Shi>> \o station, scale |-> scale] :
        station \in {<<"saiwai", Cho>>, <<"kita", Cho>>}, scale \in {40, 50}}
    \cup {[pref |-> Hokkaido, addr |-> <<"ne", "muro", Shi>>, scale |-> 50]}

\* intensity reports of one event with at most MaxItems of the points
GroupReports ==
    {IntensityReport(Some(T1), Hypocenter(Some("Noto"), Absent), Some(50), Absent,
                     Some(points), Issue(Some("E1"), Absent)) :
        points \in UNION {[1..n -> GroupPoints] : n \in 1..MaxItems}}

\* the page loads with one of the reports upstream and the Event is selected
NextGroups ==
    \/ \E report \in GroupReports : upstream[report.code] = <<>> /\ Publish(report)
    \/ OnLoad
    \/ \E k \in 1..Len(inFlight) : RefreshComplete(k, AllOk, TRUE)
    \/ \E i \in 1..Len(earthquakes) : CardClick(i, TRUE)
    \/ StartAutoplayTimeout(Some(1))
    \/ EnableRefreshTimeout

SpecGroups == Init /\ [][NextGroups]_vars

----------------------------------------------------------------------------
(* The claims' vocabulary, stated on the fetched reports *)

\* an intensity report that passes the threshold filter and carries both
\* the earthquake time and the epicenter name
Usable(r) ==
    /\ r.code = 551
    /\ Has(r.earthquake)
    /\ Has(Val(r.earthquake).maxScale)
    /\ Val(Val(r.earthquake).maxScale) >= MIN_LIST_SCALE
    /\ ~FalsyStr(Val(r.earthquake).time)
    /\ Has(Val(r.earthquake).hypocenter)
    /\ ~FalsyStr(Val(Val(r.earthquake).hypocenter).name)

PairOf(r) ==
    <<Val(Val(r.earthquake).time), Val(Val(Val(r.earthquake).hypocenter).name)>>

\* the distinct pairs of the usable reports among the first n, in the order of
\* their first report
RECURSIVE DistinctPairs(_, _)
DistinctPairs(d, n) ==
    IF n = 0 THEN <<>>
    ELSE LET acc == DistinctPairs(d, n - 1)
         IN  IF Usable(d[n]) /\ PairOf(d[n]) \notin Elems(acc)
             THEN Append(acc, PairOf(d[n])) ELSE acc

PairsOf(d) == DistinctPairs(d, Len(d))

\* the positions of the usable reports with this pair
Group(d, pair) == {k \in 1..Len(d) : Usable(d[k]) /\ PairOf(d[k]) = pair}

Minimum(S) == CHOOSE x \in S : \A y \in S : x <= y
Maximum(S) == CHOOSE x \in S : \A y \in S : x >= y

\* the last poll ended without error and gave one Event per pair, in order
Polled == ~errorShown /\ Len(PROCESSED_EARTHQUAKES) = Len(PairsOf(data))

----------------------------------------------------------------------------
(* C1 *)

\* C1: after a live poll the Event list has exactly one Event per distinct
\* (earthquake time, epicenter name) pair of the usable intensity reports:
\* as many Events as pairs, the i-th Event showing the i-th pair, and no two
\* Events with the same id.
C1_OneEventPerPair ==
    ~errorShown =>
        LET pairs == PairsOf(data)
        IN  /\ Len(PROCESSED_EARTHQUAKES) = Len(pairs)
            /\ \A i \in 1..Len(PROCESSED_EARTHQUAKES) :
                 /\ i <= Len(pairs)
                 /\ PROCESSED_EARTHQUAKES[i].epicenter = pairs[i][2]
                 /\ PROCESSED_EARTHQUAKES[i].time = FormatDateTime(Some(pairs[i][1]))
                 /\ \A j \in 1..Len(PROCESSED_EARTHQUAKES) :
                      i # j => PROCESSED_EARTHQUAKES[i].id # PROCESSED_EARTHQUAKES[j].id

\* three usable reports, two of one pair and one of another, became two Events
C1_Witness ==
    /\ ~errorShown
    /\ Len(PROCESSED_EARTHQUAKES) = 2
    /\ \E pair \in Elems(PairsOf(data)) : Cardinality(Group(data, pair)) = 2

----------------------------------------------------------------------------
(* C2 *)

\* the Events of one poll against the Events of the next
C2_Step ==
    (~errorShown /\ ~errorShown') =>
        LET old == PairsOf(data)
            new == PairsOf(data')
        IN  /\ Len(PROCESSED_EARTHQUAKES) = Len(old)
            /\ Len(PROCESSED_EARTHQUAKES') = Len(new)
            /\ \A i \in 1..Len(old) : \A j \in 1..Len(new) :
                 (old[i] = new[j]) <=>
                    (PROCESSED_EARTHQUAKES[i].id = PROCESSED_EARTHQUAKES'[j].id)

\* C2: the Event id is a function of the pair (earthquake time, epicenter
\* name) alone: from one poll to the next, whatever reports arrived in
\* between and whatever their other fields, two Events have the same id
\* if and only if they are the Events of the same pair.
C2_StableId == [][C2_Step]_vars

\* an Event of some pair is on the list and the API now serves a newer
\* revision of the same pair that differs in its other fields
C2_Witness ==
    /\ ~errorShown
    /\ PROCESSED_EARTHQUAKES # <<>>
    /\ Len(upstream[551]) > Len(data)
    /\ Usable(upstream[551][1])
    /\ \E k \in 1..Len(data) :
         /\ Usable(data[k])
         /\ PairOf(data[k]) = PairOf(upstream[551][1])
         /\ data[k] # upstream[551][1]
         /\ data[k].issue # upstream[551][1].issue

----------------------------------------------------------------------------
(* C3, C4, C5: the merge of same-key intensity reports *)

MaxScaleOf(r) == Val(Val(r.earthquake).maxScale)

\* C3: the maxScale of every Event is the maximum maxScale of the usable
\* reports of its pair, whichever of them carry points.
C3_MaxScaleIsMaximum ==
    Polled =>
        \A i \in 1..Len(PROCESSED_EARTHQUAKES) :
            PROCESSED_EARTHQUAKES[i].maxScale =
                Maximum({MaxScaleOf(data[k]) : k \in Group(data, PairsOf(data)[i])})

\* the points of an Event without the originalAddr that processEarthquake adds
RawPoints(points) ==
    [i \in 1..Len(points) |->
        [pref |-> points[i].pref, addr |-> points[i].addr, scale |-> points[i].scale]]

\* the positions of the reports of a group that have a points list
WithPoints(d, group) == {k \in group : Has(d[k].points)}

----------------------------------------------------------------------------
(* C6 .. C9: tsunami forecasts and observations *)

\* the report the Event of this pair is built from: the first report of the
\* pair that has a points list, the first report when none has (see C4)
BuiltFrom(d, pair) ==
    LET group == Group(d, pair)
        having == WithPoints(d, group)
    IN  IF having = {} THEN Minimum(group) ELSE Minimum(having)

\* the upstream correlation id of the report the i-th Event is built from
CorrelationOfEvent(i) == CorrelationId(data[BuiltFrom(data, PairsOf(data)[i])].issue)

\* the forecast reports of the poll with this correlation id
ForecastGroup(id) ==
    {k \in 1..Len(data) :
        /\ data[k].code = 552
        /\ Has(data[k].issue) /\ CorrelationId(data[k].issue) = id
        /\ Has(data[k].tsunami) /\ Has(Val(data[k].tsunami).forecasts)}

\* the areas the reports of a group name under a grade
NamedAreas(group, grade) ==
    UNION {{Val(f.area.name) :
                f \in {g \in Elems(Val(Val(data[k].tsunami).forecasts)) :
                          g.grade = grade /\ ~FalsyStr(g.area.name)}} :
           k \in group}

\* C6: the per-grade area sets attached to an Event are the union over all
\* forecast reports with the Event's correlation id.
C6_AreasAreUnion ==
    Polled =>
        \A i \in 1..Len(PROCESSED_EARTHQUAKES) :
            LET group == ForecastGroup(CorrelationOfEvent(i))
                areas == PROCESSED_EARTHQUAKES[i].tsunamiForecastAreas
            IN  group # {} =>
                    /\ Has(areas)
                    /\ \A grade \in Elems(Grades) :
                         Elems(Val(areas)[grade]) = NamedAreas(group, grade)

\* C7: in every entry of the forecast map, highestGrade is the first
\* non-empty area set in the order MajorWarning, Warning, Advisory, and
\* "None" when all three are empty.
C7_HighestGrade ==
    \A id \in DOMAIN tsunamiDetailsMap :
        LET entry == tsunamiDetailsMap[id]
            nonEmpty == {n \in 1..Len(Grades) : entry.areas[Grades[n]] # <<>>}
        IN  entry.highestGrade =
                IF nonEmpty = {} THEN "None" ELSE Grades[Minimum(nonEmpty)]

\* one entry has Advisory and Warning areas and no MajorWarning area and
\* is graded Warning, another has no area at all and is graded None
C7_Witness ==
    /\ \E id \in DOMAIN tsunamiDetailsMap :
         /\ tsunamiDetailsMap[id].areas.MajorWarning = <<>>
         /\ tsunamiDetailsMap[id].areas.Warning # <<>>
         /\ tsunamiDetailsMap[id].areas.Advisory # <<>>
         /\ tsunamiDetailsMap[id].highestGrade = "Warning"
    /\ \E id \in DOMAIN tsunamiDetailsMap :
         /\ \A grade \in Elems(Grades) : tsunamiDetailsMap[id].areas[grade] = <<>>
         /\ tsunamiDetailsMap[id].highestGrade = "None"

\* the non-cancelled observation reports of the poll with this correlation id
ObservationGroup(id) ==
    {k \in 1..Len(data) :
        /\ data[k].code = 556 /\ ~data[k].cancelled
        /\ Has(data[k].issue) /\ CorrelationId(data[k].issue) = id
        /\ Has(data[k].areas)}

\* the stations of the reports of a group, flattened in fetch order
RECURSIVE GroupStations(_, _)
GroupStations(group, n) ==
    IF n = 0 THEN <<>>
    ELSE GroupStations(group, n - 1)
         \o (IF n \in group
             THEN StationsOf(Val(data[n].areas), Len(Val(data[n].areas)))
             ELSE <<>>)

\* C8: the observation attached to an Event holds the stations of all
\* non-cancelled observation reports with the Event's correlation id, and
\* maxObservedHeight is the maximum height over all of them.
C8_ObservationOfGroup ==
    Polled =>
        \A i \in 1..Len(PROCESSED_EARTHQUAKES) :
            LET group == ObservationGroup(CorrelationOfEvent(i))
                stations == GroupStations(group, Len(data))
                observation == PROCESSED_EARTHQUAKES[i].tsunamiObservation
            IN  group # {} =>
                    /\ Has(observation)
                    /\ Val(observation).stations = stations
                    /\ Val(observation).maxObservedHeight
                         = Maximum({0} \cup {stations[n].height : n \in 1..Len(stations)})

\* C9: the forecast areas and the observation of every Event are the map
\* entries under the correlation id of the report the Event is built from;
\* without a forecast (observation) report of that id in the poll the Event
\* has no forecast areas (no observation).
C9_LookupByCorrelationId ==
    Polled =>
        \A i \in 1..Len(PROCESSED_EARTHQUAKES) :
            LET id == CorrelationOfEvent(i)
                event == PROCESSED_EARTHQUAKES[i]
            IN  /\ event.tsunamiForecastAreas =
                      IF id \in DOMAIN tsunamiDetailsMap
                      THEN Some(tsunamiDetailsMap[id].areas) ELSE Absent
                /\ event.tsunamiObservation =
                      IF id \in DOMAIN tsunamiObservationMap
                      THEN Some(tsunamiObservationMap[id]) ELSE Absent
                /\ ForecastGroup(id) = {} => event.tsunamiForecastAreas = Absent
                /\ ObservationGroup(id) = {} => event.tsunamiObservation = Absent

\* the Event is built from the second revision of its pair, whose
\* correlation id differs from the first revision's, and has the forecast of
\* that id; another Event has neither forecast nor observation
C9_Witness ==
    /\ Polled
    /\ \E i \in 1..Len(PROCESSED_EARTHQUAKES) :
         LET group == Group(data, PairsOf(data)[i])
         IN  /\ Cardinality(group) = 2
             /\ BuiltFrom(data, PairsOf(data)[i]) = Maximum(group)
             /\ CorrelationId(data[Minimum(group)].issue) # CorrelationOfEvent(i)
             /\ Has(PROCESSED_EARTHQUAKES[i].tsunamiForecastAreas)
             /\ ForecastGroup(CorrelationId(data[Minimum(group)].issue)) = {}

----------------------------------------------------------------------------
(* C10: reports without their correlation fields *)

\* an intensity report without time or epicenter name, a forecast or
\* observation report without correlation id
MissesCorrelation(r) ==
    \/ /\ r.code = 551
       /\ Has(r.earthquake)
       /\ \/ FalsyStr(Val(r.earthquake).time)
          \/ ~Has(Val(r.earthquake).hypocenter)
          \/ FalsyStr(Val(Val(r.earthquake).hypocenter).name)
    \/ /\ r.code \in {552, 556}
       /\ \/ ~Has(r.issue)
          \/ FalsyStr(Val(r.issue).event_id) /\ FalsyStr(Val(r.issue).eventid)

RemoveAt(d, i) == SubSeq(d, 1, i - 1) \o SubSeq(d, i + 1, Len(d))

\* C10: a report that misses its correlation fields is skipped: the poll
\* raises no error and returns what it returns without that report.
C10_MalformedSkipped ==
    \A i \in 1..Len(data) :
        MissesCorrelation(data[i]) =>
            /\ ~errorShown
            /\ earthquakes = Aggregate(RemoveAt(data, i)).processed

----------------------------------------------------------------------------
(* C11: fetches that fail *)

\* what the API serves when the fetches that failed are read as empty lists
ServedWithout(settled) ==
    [c \in {551, 552, 556, 554} |->
        IF settled[c] = "ok" THEN upstream[c] ELSE <<>>]

\* the reports of the kinds in the order of urls
InUrlOrder(served) == served[551] \o served[552] \o served[556] \o served[554]

\* C11: a poll in which some fetches failed (rejected, or a response that is
\* not ok) gives what a poll with every fetch ok gives when the failed kinds
\* serve empty lists: the same fetched reports, the same maps, the same
\* Events, no error banner; and when the observation fetch failed no Event
\* has a tsunamiObservation.  A poll is a step that leaves upstream alone.
C11_Step ==
    (upstream' = upstream /\ pollVars' # pollVars) =>
        LET expected == Aggregate(InUrlOrder(ServedWithout(results')))
        IN  /\ data' = InUrlOrder(ServedWithout(results'))
            /\ ~expected.threw
            /\ ~errorShown'
            /\ earthquakes' = expected.processed
            /\ PROCESSED_EARTHQUAKES' = expected.processed
            /\ tsunamiDetailsMap' = expected.tsunamiDetailsMap
            /\ tsunamiObservationMap' = expected.tsunamiObservationMap
            /\ Len(earthquakes') = Len(PairsOf(ServedWithout(results')[551]))
            /\ results'[556] # "ok" =>
                    \A i \in 1..Len(earthquakes') :
                        earthquakes'[i].tsunamiObservation = Absent

C11_FailedFetchesAreEmptyLists == [][C11_Step]_vars

\* only the observation fetch failed although the API holds an observation
\* of the event: the Event is there, with the forecast and no observation
C11_Witness ==
    /\ results = [AllOk EXCEPT ![556] = "rejected"]
    /\ upstream[556] # <<>>
    /\ upstream[552] # <<>>
    /\ Len(earthquakes) = 1
    /\ earthquakes[1].tsunamiObservation = Absent
    /\ earthquakes[1].tsunamiForecastAreas # Absent
    /\ data = upstream[551] \o upstream[552]

----------------------------------------------------------------------------
(* C19, C20: county towns and city wards *)

\* text is X <mark> Y <last> with X and Y not empty and last one of `lasts`
IsCompound(text, mark, lasts) ==
    /\ Len(text) >= 4
    /\ text[Len(text)] \in lasts
    /\ \E i \in 2..(Len(text) - 2) : text[i] = mark

\* C19: an address <prefecture><X>gun<Y>cho (or son) resolves to
\* <prefecture>_<X>gun<Y>cho, whatever KANA_DICT holds
C19_CountyKept ==
    Has(resolved) =>
        LET call == Val(resolved)
            town == Substring(call.addr, Len(call.pref))
        IN  (/\ call.pref # <<>>
             /\ StartsWith(call.addr, call.pref)
             /\ IsCompound(town, Gun, {Cho, Son}))
            => call.name = call.pref \o <<Underscore>> \o town

\* C20: an address [<prefecture>]<X>shi<Y>ku resolves to
\* <prefecture>_<X>shi<Y>ku, whatever KANA_DICT holds
C20_WardKept ==
    Has(resolved) =>
        LET call == Val(resolved)
            ward == IF StartsWith(call.addr, call.pref)
                    THEN Substring(call.addr, Len(call.pref)) ELSE call.addr
        IN  (call.pref # <<>> /\ IsCompound(ward, Shi, {Ku}))
            => call.name = call.pref \o <<Underscore>> \o ward

----------------------------------------------------------------------------
(* C14..C17: refreshes, playback and the refresh timer *)

\* the refresh timer is armed: refreshIntervalId names an armed timer that
\* calls refreshData
RefreshTimerArmed ==
    /\ Has(refreshIntervalId)
    /\ Val(refreshIntervalId) \in DOMAIN intervals
    /\ intervals[Val(refreshIntervalId)] = RefreshCallback

\* C14: at most one refreshData call is between its start and its end
C14_OneRefreshInFlight == Len(inFlight) <= 1

\* C15: a step that begins and ends during playback changes neither
\* PROCESSED_EARTHQUAKES nor FIXED_BAR_VIEWS
C15_Step ==
    (isAutoplaying /\ isAutoplaying') =>
        /\ PROCESSED_EARTHQUAKES' = PROCESSED_EARTHQUAKES
        /\ FIXED_BAR_VIEWS' = FIXED_BAR_VIEWS

C15_PlaybackKeepsContent == [][C15_Step]_vars

\* C16: during playback no armed timer calls refreshData
C16_NoRefreshTimerWhilePlaying ==
    isAutoplaying => \A id \in DOMAIN intervals : intervals[id] # RefreshCallback

\* C17: once window.onload has run to its end, the refresh timer is armed
\* whenever playback is not active
C17_TimerArmedWhenNotPlaying ==
    (loaded = "done" /\ ~isAutoplaying) => RefreshTimerArmed

\* a playback of one loop has run to its end and the timeout behind it has
\* stopped it: the refresh timer is armed again
C17_Witness ==
    /\ loaded = "done"
    /\ ~isAutoplaying
    /\ autoplayLoopCounter = 1
    /\ timeouts.endAutoplay = 0
    /\ autoplayIntervalId = Absent
    /\ Len(FIXED_BAR_VIEWS) > 1
    /\ RefreshTimerArmed

----------------------------------------------------------------------------
(* C12, C13: the pages of the bar *)

\* the Event of the selected card
ShownEvent ==
    IF Has(selectedCardId)
    THEN FindEvent(PROCESSED_EARTHQUAKES, Val(selectedCardId)) ELSE Absent

\* the items of the views, in page order
RECURSIVE Flatten(_)
Flatten(views) ==
    IF views = <<>> THEN <<>> ELSE Head(views).line1 \o Flatten(Tail(views))

\* the views of FIXED_BAR_VIEWS with this type and badge, but for the page
\* of the tsunami message
PagesOf(type, shindo) ==
    LET IsPage(view) ==
            /\ view.type = type
            /\ view.shindo = shindo
            /\ view.line1 # <<<<"happyou", shindo>>>>
    IN  SelectSeq(FIXED_BAR_VIEWS, IsPage)

\* C12: the pages of every intensity group hold the cities of the group,
\* the pages of every forecast grade its areas and the pages of the
\* stations the stations by falling height: every item once, whole and in
\* the order of the list
C12_PagesKeepItems ==
    Has(ShownEvent) =>
        LET eq == Val(ShownEvent)
            shindoGroups == GroupPointsByShindoAndMode(eq.points, "municipality",
                                                       loopPlaybackMinScale, KANA_DICT)
            AreaItems(areas) == [i \in 1..Len(areas) |-> <<areas[i]>>]
        IN  /\ \A g \in 1..Len(shindoGroups) :
                    Flatten(PagesOf("shindo", shindoGroups[g].shindo))
                        = [i \in 1..Len(shindoGroups[g].cities) |->
                                CityName(shindoGroups[g].cities[i])]
            /\ Has(eq.tsunamiForecastAreas) =>
                    /\ Flatten(PagesOf("summary", "OotsunamiKeihou"))
                            = AreaItems(Val(eq.tsunamiForecastAreas).MajorWarning)
                    /\ Flatten(PagesOf("summary", "TsunamiKeihou"))
                            = AreaItems(Val(eq.tsunamiForecastAreas).Warning)
                    /\ Flatten(PagesOf("summary", "TsunamiChuuihou"))
                            = AreaItems(Val(eq.tsunamiForecastAreas).Advisory)
            /\ Has(eq.tsunamiObservation) =>
                    LET sortedStations == SortByHeight(Val(eq.tsunamiObservation).stations)
                    IN  Flatten(PagesOf("shindo", "TsunamiKansokuchuu"))
                            = [i \in 1..Len(sortedStations) |->
                                    StationText(sortedStations[i])]

\* the items of one paginator lie on more than one page, and one of the
\* pages holds more than one item
C12_Witness ==
    /\ Has(ShownEvent)
    /\ \E title \in {"Shindo4", "TsunamiKeihou", "TsunamiKansokuchuu"},
          type \in {"shindo", "summary"} :
            /\ Len(PagesOf(type, title)) >= 2
            /\ \E i \in 1..Len(PagesOf(type, title)) :
                    Len(PagesOf(type, title)[i].line1) >= 2
            /\ Len(Flatten(PagesOf(type, title))) = MaxItems

\* C13: a page with more than one item fits the surface
C13_PagesFit ==
    \A i \in 1..Len(FIXED_BAR_VIEWS) :
        Len(FIXED_BAR_VIEWS[i].line1) >= 2 =>
            DoesTextFitInTwoLines(FIXED_BAR_VIEWS[i].line1, contentLine1)

\* a page of two items that fits is followed by a page of one item that
\* does not fit, alone and not in front of the next item either
C13_Witness ==
    \E i \in 1..(Len(FIXED_BAR_VIEWS) - 1) :
        /\ Len(FIXED_BAR_VIEWS[i].line1) = 2
        /\ DoesTextFitInTwoLines(FIXED_BAR_VIEWS[i].line1, contentLine1)
        /\ Len(FIXED_BAR_VIEWS[i + 1].line1) = 1
        /\ FIXED_BAR_VIEWS[i + 1].shindo = FIXED_BAR_VIEWS[i].shindo
        /\ ~DoesTextFitInTwoLines(FIXED_BAR_VIEWS[i + 1].line1, contentLine1)

----------------------------------------------------------------------------
(* C18: a second delivery of an early warning *)

\* the early warning a poll hands to handleEew has the id of a queued alert
DeliversQueuedId ==
    /\ FetchEarthquakeData(AllOk)
    /\ upstream[554] # <<>>
    /\ Has(upstream[554][1].earthquake)
    /\ \E i \in 1..Len(eewQueue) : eewQueue[i] = upstream[554][1].id

\* C18: eewQueue never holds an id twice, and a poll that delivers an
\* early warning whose id is queued leaves the queue, the text shown, the
\* index, the two timers and the alert sound as they are
C18_Step ==
    /\ \A i, k \in 1..Len(eewQueue') : eewQueue'[i] = eewQueue'[k] => i = k
    /\ DeliversQueuedId => UNCHANGED <<eewQueue, alertVars>>

C18_SecondDeliveryChangesNothing == [][C18_Step]_vars

----------------------------------------------------------------------------
(* C21, C22: the forward match and the resolver as a whole *)

\* the keys of the dictionary that the address without its prefecture
\* starts with
PrefixKeys(addr, pref, dict) ==
    {key \in Elems(Keys(dict)) : StartsWith(RemainingAddr(addr, pref), key)}

\* no key passes the direct test, and neither pattern of two parts matches
OnlyForward(addr, pref, dict) ==
    /\ addr # <<>> /\ pref # <<>>
    /\ \A key \in Elems(Keys(dict)) :
           ~(Includes(addr, key)
             /\ (EndsWith(addr, key) \/ Includes(addr, key \o <<Space>>)))
    /\ ~Has(MatchTwo(RemainingAddr(addr, pref), Shi, {Ku}))
    /\ ~Has(MatchTwo(RemainingAddr(addr, pref), Gun, {Cho, Son}))
    /\ PrefixKeys(addr, pref, dict) # {}

\* a call of the resolver: the step that sets `resolved`
C21_Step ==
    (resolved' # resolved /\ Has(resolved')) =>
        LET call == Val(resolved')
            prefixes == PrefixKeys(call.addr, call.pref, KANA_DICT)
        IN  OnlyForward(call.addr, call.pref, KANA_DICT) =>
                \E key \in prefixes :
                    /\ \A other \in prefixes : Len(other) <= Len(key)
                    /\ call.name = call.pref \o <<Underscore>> \o key

\* C21: when the direct test, the city-and-ward pattern and the
\* county-and-town pattern do not match and some key of the dictionary is a
\* prefix of the address without its prefecture, the resolver returns the
\* longest such key, in whatever order the dictionary holds its keys
C21_LongestPrefixKey == [][C21_Step]_vars

\* the address of the example resolved to its city under a dictionary that
\* holds a shorter prefix in front of the city
C21_Witness ==
    /\ Keys(KANA_DICT) = <<<<"tochi", "gi">>, TochigiShi>>
    /\ Has(resolved)
    /\ Val(resolved).addr = TochigiShi \o <<"iri", "fune", Cho>>
    /\ Val(resolved).name = Tochigi \o <<Underscore>> \o TochigiShi
    /\ OnlyForward(Val(resolved).addr, Val(resolved).pref, KANA_DICT)

\* no rule of the resolver matches: no key passes the direct test, no key
\* is a prefix, and no city, ward, town or village character stands behind
\* the first character of the address without its prefecture
NoRuleMatches(addr, pref, dict) ==
    /\ addr # <<>> /\ pref # <<>>
    /\ \A key \in Elems(Keys(dict)) :
           ~(Includes(addr, key)
             /\ (EndsWith(addr, key) \/ Includes(addr, key \o <<Space>>)))
    /\ PrefixKeys(addr, pref, dict) = {}
    /\ Positions(RemainingAddr(addr, pref), {Shi, Ku, Cho, Son}) \subseteq {1}

\* the result is <prefecture>_<name> with a name that is not empty; a
\* missing prefecture is written 'fumei'
C22_Step ==
    (resolved' # resolved /\ Has(resolved')) =>
        LET call == Val(resolved')
            prefecture == IF call.pref = <<>> THEN UnknownPref ELSE call.pref
        IN  /\ Len(call.name) > Len(prefecture) + 1
            /\ SubSeq(call.name, 1, Len(prefecture) + 1) = prefecture \o <<Underscore>>
            /\ NoRuleMatches(call.addr, call.pref, KANA_DICT) =>
                   call.name = call.pref \o <<Underscore>> \o call.addr

\* C22: for every address and prefecture, missing ones included, and every
\* dictionary, the empty one included, the resolver returns
\* <prefecture>_<name> with a name that is not empty, and the name is the
\* address unchanged when no rule matches
C22_ResolverTotal == [][C22_Step]_vars

\* an address that no rule matches, resolved under a dictionary with keys
C22_Witness ==
    /\ KANA_DICT # <<>>
    /\ Has(resolved)
    /\ Val(resolved).addr = Tokyo \o Miyakejima
    /\ NoRuleMatches(Val(resolved).addr, Val(resolved).pref, KANA_DICT)
    /\ Val(resolved).name = Tokyo \o <<Underscore>> \o Tokyo \o Miyakejima

----------------------------------------------------------------------------
(* C23, C25: the override table *)

\* a call of getKana: the step that sets kanaCall
C23_Step ==
    (kanaCall' # kanaCall /\ Has(kanaCall')) =>
        LET call == Val(kanaCall')
            overrides == {i \in 1..Len(MANUAL_KANA_DICT.entries) :
                            MANUAL_KANA_DICT.entries[i].name = call.kanji}
        IN  IF MANUAL_KANA_DICT.kind = "object" /\ overrides # {}
            THEN \E i \in overrides :
                    call.returned = Some(MANUAL_KANA_DICT.entries[i].kana)
            ELSE \/ call.returned = Some(<<>>)
                 \/ \E i \in 1..Len(KANA_DICT) :
                        call.returned = Some(KatakanaToHiragana(KANA_DICT[i].kana))

\* C23: getKana returns the value of the entry that the override table has
\* for the key, the empty text included; without such an entry it returns
\* a reading of the base dictionary or the empty text
C23_OverrideFirst == [][C23_Step]_vars

\* the item does not parse to an object: it is no JSON, or the JSON of null
Corrupted(item) ==
    Has(item) /\ (~Val(item).valid \/ Val(item).value.kind # "object")

\* a load of a corrupted item leaves the empty table, and every lookup
\* returns a text
C25_Step ==
    /\ ((OnLoad \/ CloseKanaModal) /\ Corrupted(manualKanaDictionary))
          => MANUAL_KANA_DICT' = EmptyTable
    /\ (kanaCall' # kanaCall /\ Has(kanaCall')) => Has(Val(kanaCall').returned)

\* C25: when the item of localStorage does not parse to a mapping of texts,
\* loading leaves the override table empty, and every lookup returns a text
C25_CorruptStoreDiscarded == [][C25_Step]_vars

----------------------------------------------------------------------------
(* C24: a refresh without reports *)

\* a refreshData call ends with an empty fetched list: displayEarthquakes
\* gets the empty list, which shows #no-data, and the banner is shown
C24_Step ==
    (Len(inFlight') < Len(inFlight) /\ data' = <<>>) =>
        (earthquakes' = <<>> /\ errorShown')

\* C24: a poll that yields no report, because the four fetches failed or
\* returned nothing, shows the no-data state and the error banner
C24_OutageShowsBanner == [][C24_Step]_vars

----------------------------------------------------------------------------
(* C26: what a stop leaves pending *)

\* a timer that calls the page tick is armed
TickArmed(armed) == \E id \in DOMAIN armed : armed[id].callback = "autoplay"

\* a step that stops playback leaves no page tick, no timeout of the end of
\* playback and no timeout of the slide transition; and the timeout of the
\* end of a playback does not stop a playback whose page tick is armed
C26_Step ==
    /\ (isAutoplaying /\ ~isAutoplaying') =>
            /\ ~TickArmed(intervals')
            /\ timeouts'.endAutoplay = 0
            /\ slideTimeouts' = <<>>
    /\ (EndAutoplayTimeout /\ isAutoplaying /\ TickArmed(intervals)) => isAutoplaying'

\* C26: a stop cancels the page tick, the timeout of the end of playback
\* and the timeouts of the slide transition; the timeout of the end of a
\* finished playback cannot stop a playback that was started after it
C26_StopCancelsPending == [][C26_Step]_vars

----------------------------------------------------------------------------
(* C27: a playback that nobody touches *)

\* the loops select of the playback whose page tick is armed
ArmedLoops(armed) ==
    Val(armed[CHOOSE id \in DOMAIN armed : armed[id].callback = "autoplay"].totalLoops)

\* a step within a playback: the index moves to the next page, behind the
\* last page to the first; what the bar shows anew is the page of the index
\* or the end view, and the end view comes behind the last page of the
\* last loop
C27_Step ==
    (isAutoplaying /\ isAutoplaying') =>
        /\ CURRENT_SHINDO_INDEX' # CURRENT_SHINDO_INDEX =>
                CURRENT_SHINDO_INDEX' =
                    IF CURRENT_SHINDO_INDEX < Len(FIXED_BAR_VIEWS) - 1
                    THEN CURRENT_SHINDO_INDEX + 1 ELSE 0
        /\ barContent' # barContent =>
                \/ /\ barContent' = Some(EndView)
                   /\ CURRENT_SHINDO_INDEX = Len(FIXED_BAR_VIEWS) - 1
                   /\ autoplayLoopCounter' = ArmedLoops(intervals)
                \/ /\ CURRENT_SHINDO_INDEX' \in 0..(Len(FIXED_BAR_VIEWS') - 1)
                   /\ barContent' = Some(FIXED_BAR_VIEWS'[CURRENT_SHINDO_INDEX' + 1])

\* C27: a playback of N loops over L pages that no user touches shows the
\* pages 1..L in their order N times and then the end view
C27_PagesInOrder == [][C27_Step]_vars

----------------------------------------------------------------------------
(* C28: the index of the page that is looked up *)

\* C28: every FIXED_BAR_VIEWS[CURRENT_SHINDO_INDEX] of updateFixedBarDisplay
\* finds the index within 0..length-1; the -1 of startAutoplay is never
\* used to look up a page
C28_LookupInRange == Has(pageLookup) => InRange(Val(pageLookup))

\* playback was stopped before its first page tick, so that the index is
\* still -1 while the pager is shown, and pages have been looked up
C28_Witness ==
    /\ ~isAutoplaying
    /\ CURRENT_SHINDO_INDEX = -1
    /\ Len(FIXED_BAR_VIEWS) > 1
    /\ Has(pageLookup)
    /\ InRange(Val(pageLookup))

----------------------------------------------------------------------------
(* C29: the wait for playback *)

\* a step in which setTimeout(startAutoplay, 3000) is due leaves the wait
\* ended
C29_Step ==
    timeouts'.startAutoplay < timeouts.startAutoplay => ~isWaitingForAutoplay'

\* C29: isWaitingForAutoplay, once a refresh has set it, is cleared when the
\* 3 s of the start delay are over, whatever refreshes and clicks come in
\* between
C29_WaitEnds == [][C29_Step]_vars

----------------------------------------------------------------------------
(* C30: what a refresh announces *)

\* inFlight without its k-th call
Settled(k) == SubSeq(inFlight, 1, k - 1) \o SubSeq(inFlight, k + 1, Len(inFlight))

\* a refreshData that ends with the wait set and a playback scheduled has
\* fetched an Event whose id the list did not hold when the call began
C30_Step ==
    (timeouts'.startAutoplay > timeouts.startAutoplay /\ isWaitingForAutoplay') =>
        \E k \in 1..Len(inFlight) :
            /\ inFlight' = Settled(k)
            /\ Elems(Ids(earthquakes')) \ Elems(inFlight[k].idsBefore) # {}

\* C30: a refresh sets isWaitingForAutoplay and schedules playback only if
\* its result holds an Event id that the list did not hold before
C30_AnnouncesNewIdsOnly == [][C30_Step]_vars

----------------------------------------------------------------------------
(* C31: the ids of the list *)

\* C31: PROCESSED_EARTHQUAKES holds no two Events with the same id, behind
\* a poll of the API and behind a poll of training mode alike
C31_IdsDistinct ==
    \A i, j \in 1..Len(PROCESSED_EARTHQUAKES) :
        i # j => PROCESSED_EARTHQUAKES[i].id # PROCESSED_EARTHQUAKES[j].id

----------------------------------------------------------------------------
(* C32: the Events under a tsunami warning *)

\* the pages of updateFixedShindoBar that announce a warning or an advisory
WarningPages(tsunamiLabel) ==
    {i \in 1..Len(TsunamiMessageViews(tsunamiLabel)) :
        TsunamiMessageViews(tsunamiLabel)[i].shindo
            \in {"OotsunamiKeihou", "TsunamiKeihou", "TsunamiChuuihou"}}

\* C32: an Event whose domesticTsunami is Warning or MajorWarning has a
\* tsunami label other than 'fumei' and a page that announces the warning,
\* with or without a forecast report of its correlation id in the poll
C32_WarningHasPage ==
    \A i \in 1..Len(PROCESSED_EARTHQUAKES) :
        PROCESSED_EARTHQUAKES[i].tsunami \in {Some("Warning"), Some("MajorWarning")} =>
            /\ PROCESSED_EARTHQUAKES[i].tsunamiLabel # "Fumei"
            /\ WarningPages(PROCESSED_EARTHQUAKES[i].tsunamiLabel) # {}

----------------------------------------------------------------------------
(* C33: the magnitude of the merged Event *)

MagnitudeOf(r) == Val(Val(r.earthquake).hypocenter).magnitude

\* C33: the Event of a pair has a valid magnitude (neither -1 nor null) when
\* one of the usable reports of its pair has one, in every arrival order and
\* whichever of them carry points
C33_ValidMagnitudeKept ==
    Polled =>
        \A i \in 1..Len(PROCESSED_EARTHQUAKES) :
            (\E k \in Group(data, PairsOf(data)[i]) :
                ~InvalidMagnitude(MagnitudeOf(data[k])))
            => ~InvalidMagnitude(PROCESSED_EARTHQUAKES[i].magnitude)

----------------------------------------------------------------------------
(* C34: the intensity groups of the municipality mode *)

\* the intensity groups of the bar for the Event of the selected card
ShownGroups ==
    GroupPointsByShindoAndMode(Val(ShownEvent).points, "municipality",
                               loopPlaybackMinScale, KANA_DICT)

\* the points of the Event at or above the threshold that lie in the
\* municipality
PointsIn(key) ==
    {k \in 1..Len(Val(ShownEvent).points) :
        /\ Val(ShownEvent).points[k].scale >= loopPlaybackMinScale
        /\ GetMunicipality(Val(ShownEvent).points[k].addr,
                           Val(ShownEvent).points[k].pref, KANA_DICT) = key}

\* the places of a municipality in the groups: <<group, position>>
PlacesOf(key) ==
    {<<g, c>> \in (1..Len(ShownGroups)) \X (1..MaxItems + 1) :
        c <= Len(ShownGroups[g].cities) /\ ShownGroups[g].cities[c] = key}

\* C34: every municipality of the Event has one place in the groups, in the
\* group of the highest intensity of its points, and the groups are in the
\* order of falling intensity
C34_OneGroupPerMunicipality ==
    Has(ShownEvent) =>
        /\ \A k \in 1..Len(Val(ShownEvent).points) :
            Val(ShownEvent).points[k].scale >= loopPlaybackMinScale =>
                LET key == GetMunicipality(Val(ShownEvent).points[k].addr,
                                           Val(ShownEvent).points[k].pref, KANA_DICT)
                    top == Maximum({Val(ShownEvent).points[p].scale : p \in PointsIn(key)})
                IN  /\ Cardinality(PlacesOf(key)) = 1
                    /\ \A place \in PlacesOf(key) :
                            ShownGroups[place[1]].shindo = ScaleToShindo(top)
        /\ \A g \in 1..(Len(ShownGroups) - 1) :
                ShindoSortOrder(ShownGroups[g].shindo)
                    > ShindoSortOrder(ShownGroups[g + 1].shindo)

----------------------------------------------------------------------------
(* C35: the direct match and the order of the dictionary *)

\* the dictionaries with the entries of dict in any insertion order
Reorderings(dict) ==
    {[i \in 1..Len(dict) |-> dict[order[i]]] :
        order \in {f \in [1..Len(dict) -> 1..Len(dict)] :
                        \A i, j \in 1..Len(dict) : i # j => f[i] # f[j]}}

\* C35: when a key of KANA_DICT matches the address directly, the resolver
\* gives the same municipality under every insertion order of the same
\* keys, also when several keys are suffixes of the address
C35_DirectMatchOrderFree ==
    (/\ Has(resolved)
     /\ Val(resolved).addr # <<>> /\ Val(resolved).pref # <<>>
     /\ Has(DirectMatch(Val(resolved).addr, KANA_DICT))
     /\ Val(resolved).name
            = GetMunicipality(Val(resolved).addr, Val(resolved).pref, KANA_DICT))
    => \A other \in Reorderings(KANA_DICT) :
            GetMunicipality(Val(resolved).addr, Val(resolved).pref, other)
                = Val(resolved).name

----------------------------------------------------------------------------
(* C36: the refresh timers *)

\* the armed timers that call refreshData
RefreshTimers == {id \in DOMAIN intervals : intervals[id] = RefreshCallback}

\* C36: at most one timer that calls refreshData is armed, and
\* refreshIntervalId names it
C36_OneTrackedRefreshTimer ==
    /\ Cardinality(RefreshTimers) <= 1
    /\ \A id \in RefreshTimers : refreshIntervalId = Some(id)

----------------------------------------------------------------------------
(* C37: the rotation of the queued alerts *)

\* the rotation timer is armed: eewDisplayIntervalId names an armed timer
RotationArmed ==
    /\ Has(eewDisplayIntervalId)
    /\ Val(eewDisplayIntervalId) \in eewTimers

\* C37: while eewQueue holds more than one alert the rotation timer is
\* armed, so that its ticks bring every queued alert to the display before
\* the queue is cleared
C37_RotationArmed == Len(eewQueue) > 1 => RotationArmed

----------------------------------------------------------------------------
(* C38: an early warning is alerted once *)

\* the ids of the alerts in eewQueue
Queued(queue) == {queue[i] : i \in 1..Len(queue)}

\* the id of the early warning that the last poll passed to handleEew and
\* that handleEew alerted: the first report of code 554 in data
AlertedByLastPoll ==
    LET found == {k \in 1..Len(data) : data[k].code = 554}
    IN  IF found = {} THEN {}
        ELSE LET eewInfo == data[Minimum(found)]
             IN  IF Has(eewInfo.earthquake) THEN {eewInfo.id} ELSE {}

\* C38: an early warning that the last poll alerted and whose display has
\* been cleared is not queued again, whatever a later poll returns
C38_Step ==
    \A id \in AlertedByLastPoll : id \notin Queued(eewQueue) => id \notin Queued(eewQueue')

C38_AlertedOnce == [][C38_Step]_vars

----------------------------------------------------------------------------
(* C39: the placeholders of the override table *)

\* the reading that KANA_DICT has for the municipality of the key
BaseReading(kanji) ==
    IF DictGet(KANA_DICT, CityName(kanji)) # <<>>
    THEN DictGet(KANA_DICT, CityName(kanji))
    ELSE DictGet(KANA_DICT, StripParens(CityName(kanji)))

\* the override table holds no reading that the user saved for the key:
\* the key is missing or has the empty text of a placeholder
NoSavedOverride(kanji) ==
    /\ MANUAL_KANA_DICT.kind = "object"
    /\ DictGet(MANUAL_KANA_DICT.entries, kanji) = <<>>

\* a call of getKana for a key with a base reading and without an override
\* that the user saved returns the base reading
C39_Step ==
    (/\ kanaCall' # kanaCall /\ Has(kanaCall')
     /\ Val(kanaCall').kanji # <<>>
     /\ BaseReading(Val(kanaCall').kanji) # <<>>
     /\ NoSavedOverride(Val(kanaCall').kanji))
    => Val(kanaCall').returned
            = Some(KatakanaToHiragana(BaseReading(Val(kanaCall').kanji)))

\* C39: a placeholder that was registered for a city without a reading does
\* not hide a reading of the base dictionary: getKana returns the base
\* reading, also when the placeholder comes from the stored table of an
\* earlier load with an empty dictionary
C39_PlaceholderHidesNothing == [][C39_Step]_vars

----------------------------------------------------------------------------
(* C40: the time of the last fetch *)

\* a refreshData call ends whose four fetches all failed, by rejection or
\* by a response that is not ok
FailedRefreshEnds ==
    /\ Len(inFlight') < Len(inFlight)
    /\ \A c \in {551, 552, 556, 554} : results'[c] # "ok"

C40_Step == FailedRefreshEnds => LAST_FETCH_TIME' = LAST_FETCH_TIME

\* C40: a refresh in which every one of the four fetches failed leaves
\* LAST_FETCH_TIME as it was
C40_FailedRefreshKeepsTime == [][C40_Step]_vars

====
